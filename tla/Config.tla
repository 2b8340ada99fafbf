------------------------------- MODULE Config -------------------------------
(***************************************************************************)
(* From the configuration file to the program's data and back:             *)
(*   cfg_master, cfg_init_plcset   fill PLCvec, the vector of PLC objects  *)
(*   regs_create_from_plc          one entry of REGmap for every register  *)
(*   cfg_init_scadaset             one for every SCADA variable, which may *)
(*                                 point at registers in PLCvec            *)
(*   opc_regs_init                 one OPC UA variable for every entry     *)
(*   deinit_all                    takes it all down, for another file     *)
(*                                                                         *)
(* The pointers are what can go wrong: a register is known here by the     *)
(* buffer of PLCvec it lies in, the position of its PLC and its address,   *)
(* and a vector that outgrows its capacity moves to another buffer.        *)
(*                                                                         *)
(* A file is what the parser makes of it.  Its `fault` says which lookup   *)
(* of cfg_master, if any, will throw.  Full names are pairs <<PLC or set,  *)
(* name>>, OPC paths are sequences of their parts (remove_dbl_slashes      *)
(* leaves no empty one).                                                   *)
(***************************************************************************)
EXTENDS RegTypes, Integers

CONSTANTS
  File,      \* the configuration files
  Reload     \* those that may be loaded after another

SetOf(seq) == {seq[i] : i \in DOMAIN seq}

\* What the parser makes of a file: records in the order of the file, those of
\* the PLCs with registers that have an address, those of SCADA with variables.
\* The device behind the first PLC has something to answer.
IsSeq(s) == s \in Seq(SetOf(s))

ASSUME FilesAssumption ==
  /\ Reload \subseteq File
  /\ \A f \in File :
       /\ f.all \in BOOLEAN /\ IsSeq(f.list) /\ IsSeq(f.plc) /\ IsSeq(f.scada)
       /\ f.device # {}
       /\ \A c \in SetOf(f.plc) : /\ IsSeq(c.regs)
                                  /\ \A r \in SetOf(c.regs) : r.addr \in Nat
       /\ \A c \in SetOf(f.scada) : IsSeq(c.vars)

VARIABLES
  file,      \* the configuration file being loaded
  pc,        \* what the main thread is doing
  at, nth,   \* the record it has come to, and the variable within it
  PLCvec,    \* the PLC objects
  capacity,  \* ... and how many fit in the vector's buffer,
  buffer,    \* ... which has been moved so many times
  REGmap,    \* full name -> entry
  opcvars    \* the OPC UA server's variables: path -> type

config == <<file, pc, at, nth, PLCvec, capacity, buffer, REGmap, opcvars>>

Null == [buf |-> 0, plc |-> 0, addr |-> 0]
Empty == [x \in {} |-> Null]
NoSource == <<>>

-----------------------------------------------------------------------------
(* PLC objects.                                                            *)

FullName(dev, name) == <<dev, name>>

\* Whether init_regs finds a neighbour for the register at address a.
HasNextMutant(a, addresses) == a + 2 \in addresses
HasNext(a, addresses) == a + 1 \in addresses

\* What init_regs and the copy of a tuple make of register r.
Register(r, here, addresses) ==
  [name |-> r.name, folder |-> r.folder, rmode |-> r.rw,
   rvalue |-> NotYet, rupdate |-> FALSE, rerrors |-> FALSE,
   r_next |-> IF HasNext(r.addr, addresses) THEN [here EXCEPT !.addr = r.addr + 1]
                                            ELSE Null]

LastAt(regs, a) == LET S == {i \in DOMAIN regs : regs[i].addr = a}
                   IN CHOOSE i \in S : \A j \in S : j <= i

\* emplace_back, cfg_init_plcregs and init_regs: of two tuples with one
\* address the last stays.
PlcObject(c, here) ==
  LET A == {r.addr : r \in SetOf(c.regs)}
  IN [name |-> c.name, folder |-> c.folder, lock |-> "live",
      regs |-> [a \in A |-> Register(c.regs[LastAt(c.regs, a)], here, A)]]

\* The copy that a growing vector makes of it: the pointers still lead into
\* the old buffer, and the old object's destructor has deleted the mutex.
Moved(D) == [D EXCEPT !.lock = "deleted"]

Exists(p) == /\ p.buf = buffer
             /\ p.plc \in DOMAIN PLCvec
             /\ p.addr \in DOMAIN PLCvec[p.plc].regs

Reg(p) == PLCvec[p.plc].regs[p.addr]

-----------------------------------------------------------------------------
Init ==
  /\ file \in File
  /\ pc = "out" /\ at = 1 /\ nth = 1
  /\ PLCvec = <<>> /\ capacity = 0 /\ buffer = 1
  /\ REGmap = Empty /\ opcvars = Empty

ReserveMutant(n) == capacity' = capacity

\* reserve, when the vector might not hold n more.
Reserve(n) ==
  LET size == Len(PLCvec) + n
  IN capacity' = IF size > capacity THEN size + 1 ELSE capacity

\* cfg_master opens a file, and cfg_init_plcset the list of PLCs.  "all"
\* means every record, whatever its name.
ReadFile(f) ==
  /\ pc = "out"
  /\ f # file => f \in Reload
  /\ file' = f
  /\ IF f.fault = "early"
     THEN pc' = "failed" /\ UNCHANGED capacity
     ELSE pc' = "plc" /\ Reserve(IF f.all THEN Len(f.plc) ELSE Len(f.list))
  /\ at' = 1 /\ nth' = 1
  /\ UNCHANGED <<PLCvec, buffer, REGmap, opcvars>>

Listed(c) == file.all \/ c.name \in SetOf(file.list)

\* A record with a field missing, or not in the list, is passed over.
SkipPlc ==
  /\ pc = "plc" /\ at <= Len(file.plc)
  /\ LET c == file.plc[at] IN ~c.complete \/ ~Listed(c)
  /\ at' = at + 1
  /\ UNCHANGED <<file, pc, nth, PLCvec, capacity, buffer, REGmap, opcvars>>

\* emplace_back doubles a buffer that is full, and everything moves.
GrownMutant(size) == size
Grown(size) == IF size = 0 THEN 1 ELSE 2 * size

AddPlc ==
  LET c    == file.plc[at]
      size == Len(PLCvec)
      full == size >= capacity
      here == [buf |-> buffer', plc |-> size + 1, addr |-> 0]
  IN
  /\ pc = "plc" /\ at <= Len(file.plc)
  /\ c.complete /\ Listed(c)
  /\ buffer' = IF full THEN buffer + 1 ELSE buffer
  /\ capacity' = IF full THEN Grown(size) ELSE capacity
  /\ PLCvec' = Append([k \in DOMAIN PLCvec |-> IF full THEN Moved(PLCvec[k])
                                                       ELSE PLCvec[k]],
                      PlcObject(c, here))
  /\ at' = at + 1
  /\ UNCHANGED <<file, pc, nth, REGmap, opcvars>>

-----------------------------------------------------------------------------
(* The entries.                                                            *)

\* The folders and the name under which an entry is published; empty parts
\* of a path leave double slashes, which are removed.
Part(s) == IF s = "" THEN <<>> ELSE <<s>>
Path(top, inner, folder, name) ==
  [folders |-> Part(top) \o Part(inner) \o Part(folder), name |-> name]

Registers ==
  UNION {{[buf |-> buffer, plc |-> k, addr |-> a] : a \in DOMAIN PLCvec[k].regs}
         : k \in DOMAIN PLCvec}
NameOf(p) == FullName(PLCvec[p.plc].name, Reg(p).name)

\* The constructor for a Modbus register, always of type "u16".
ModbusEntry(p) ==
  LET D == PLCvec[p.plc]
      x == SetType(NewNumber(Zero), "UINT16")
  IN [kind |-> "modbus", rw |-> Reg(p).rmode, prop |-> regprop_map["u16"],
      ptr |-> [i \in Place |-> IF i = 0 THEN p ELSE Null], var_errors |-> FALSE,
      Number |-> SetNumber(NewNumber(Zero), [x EXCEPT !.value[0] = Reg(p).rvalue]),
      path |-> Path(D.folder, D.name, Reg(p).folder, NameOf(p))]

\* regs_create_from_plc: of two registers with one full name the later, in
\* the order of the vector and of the addresses, has the entry.
Later(p, q) == p.plc > q.plc \/ (p.plc = q.plc /\ p.addr > q.addr)

CreateEntries ==
  /\ pc = "plc" /\ at > Len(file.plc)
  /\ REGmap' = [n \in {NameOf(p) : p \in Registers} |->
                  ModbusEntry(CHOOSE p \in Registers :
                    /\ NameOf(p) = n
                    /\ \A q \in Registers : NameOf(q) = n => ~Later(q, p))]
  /\ pc' = IF file.fault = "late" THEN "failed" ELSE "scada"
  /\ at' = 1 /\ nth' = 1
  /\ UNCHANGED <<file, PLCvec, capacity, buffer, opcvars>>

-----------------------------------------------------------------------------
(* SCADA variables, one step for each.                                     *)

\* What the constructor for references finds by following r_next from p.
\* Null after a gap: it is stored, and then the next one is asked of it.
Chain(p) ==
  LET c[i \in Place] == IF i = 0 THEN p
                        ELSE IF c[i - 1] = Null THEN Null ELSE Reg(c[i - 1]).r_next
  IN c

\* Every one of the n pointers that are followed leads somewhere.
Sound(p, n) == \A i \in 0 .. n - 1 : Exists(Chain(p)[i])

IsLocal(v) == v.source = NoSource
SetName(c) == IF c.name \in {"", "-", "."} THEN "" ELSE c.name
TypeOf(v) == regprop_map[v.type]
SourcePtr(v) == IF IsLocal(v) THEN Null ELSE REGmap[v.source].ptr[0]

ScadaEntry(c, v) ==
  LET prop == TypeOf(v)
      name == FullName(SetName(c), v.name)
      old  == IF name \in DOMAIN REGmap THEN REGmap[name].Number ELSE NewNumber(Zero)
  IN [kind |-> IF IsLocal(v) THEN "scada" ELSE "ref", rw |-> v.rw, prop |-> prop,
      ptr |-> [i \in Place |-> IF SourcePtr(v) # Null /\ i < prop.rsize
                               THEN Chain(SourcePtr(v))[i] ELSE Null],
      var_errors |-> FALSE,
      Number |-> SetNumber(old, Assign(SetType(NewNumber(Zero), prop.rtype), Local)),
      path |-> Path(c.folder, c.name, v.folder, name)]

InSet == pc = "scada" /\ at <= Len(file.scada) /\ file.scada[at].complete
Here  == file.scada[at].vars[nth]

\* A set with a field missing, or behind its last variable.
NextSet ==
  /\ pc = "scada" /\ at <= Len(file.scada)
  /\ ~file.scada[at].complete \/ nth > Len(file.scada[at].vars)
  /\ at' = at + 1 /\ nth' = 1
  /\ UNCHANGED <<file, pc, PLCvec, capacity, buffer, REGmap, opcvars>>

\* A source that is no entry yet, or a type that is none.
Refused(v) ==
  \/ ~IsLocal(v) /\ v.source \notin DOMAIN REGmap
  \/ ~check_type(v.type)

SkipVar ==
  /\ InSet /\ nth <= Len(file.scada[at].vars)
  /\ Refused(Here)
  /\ nth' = nth + 1
  /\ UNCHANGED <<file, pc, at, PLCvec, capacity, buffer, REGmap, opcvars>>

AddVar ==
  /\ InSet /\ nth <= Len(file.scada[at].vars)
  /\ ~Refused(Here)
  /\ IF SourcePtr(Here) # Null /\ ~Sound(SourcePtr(Here), TypeOf(Here).rsize)
     THEN pc' = "crashed" /\ UNCHANGED <<nth, REGmap>>
     ELSE /\ LET n == FullName(SetName(file.scada[at]), Here.name)
             IN REGmap' = [m \in DOMAIN REGmap \cup {n} |->
                             IF m = n THEN ScadaEntry(file.scada[at], Here)
                                      ELSE REGmap[m]]
          /\ nth' = nth + 1 /\ UNCHANGED pc
  /\ UNCHANGED <<file, at, PLCvec, capacity, buffer, opcvars>>

ScadaDone ==
  /\ pc = "scada" /\ at > Len(file.scada)
  /\ pc' = "opc"
  /\ UNCHANGED <<file, at, nth, PLCvec, capacity, buffer, REGmap, opcvars>>

-----------------------------------------------------------------------------
(* The OPC UA variables.                                                   *)

ErrorsPath(p) == [folders |-> <<"ERRORS">> \o p.folders,
                  name |-> p.name \o <<"error">>]
IsMillis(p)   == p.name[1] # "" /\ p.name[2] = "millis"
StatusPath(p) == [p EXCEPT !.name[2] = "status"]
FolderPath(seq) == [folders |-> seq, name |-> <<>>]

\* The types AddVar is instantiated for; the scaled ones are floats.
Published == {"UINT16", "INT16", "UINT32", "INT32", "UINT64", "INT64",
              "F10", "F100", "FLOAT", "DOUBLE"}

\* get_FolderNodeId and add_FolderToParent: the folders above path p.
FoldersOf(p) == {FolderPath(SubSeq(p.folders, 1, i)) : i \in DOMAIN p.folders}

\* add_VarName ignores a path that is taken.
Added(old, new) ==
  [p \in DOMAIN old \cup DOMAIN new |-> IF p \in DOMAIN old THEN old[p] ELSE new[p]]

\* opc_regs_init goes through REGmap by name: ".millis" comes before ".status".
opc_regs_init ==
  LET Entries  == {REGmap[n] : n \in DOMAIN REGmap}
      Status   == {StatusPath(e.path) : e \in {x \in Entries : IsMillis(x.path)}}
      Errors   == {ErrorsPath(e.path) : e \in Entries}
      Own      == {e.path : e \in {x \in Entries : x.prop.rtype \in Published}}
      Variable == Status \cup Errors \cup Own
      Folder   == UNION {FoldersOf(p) : p \in Variable}
      Kind(p)  == CASE p \in Folder -> "folder"
                    [] p \in Status -> "INT16"
                    [] p \in Errors -> "UINT16"
                    [] OTHER -> type_attr[(CHOOSE e \in Entries :
                                             e.path = p).prop.rtype].ua
  IN Added(opcvars, [p \in Variable \cup Folder |-> Kind(p)])

OpcRegsInit ==
  /\ pc = "opc"
  /\ opcvars' = opc_regs_init
  /\ pc' = "ready"
  /\ UNCHANGED <<file, at, nth, PLCvec, capacity, buffer, REGmap>>

\* isVariable, and the node under which add_VarNodeId hangs a variable: the
\* objects of the server for one outside all folders.
IsVariable(p) == p \in DOMAIN opcvars /\ opcvars[p] # "folder"
Parent(p) == FolderPath(p.folders)

\* GetVarFullName: the variable whose path ends in the name.
GetVarFullName(n) ==
  IF \E p \in DOMAIN opcvars : p.name = n
  THEN CHOOSE p \in DOMAIN opcvars : p.name = n
  ELSE FolderPath(<<>>)

-----------------------------------------------------------------------------
(* deinit_all, with the tasks stopped: regs_deinit, opc_deinit, mb_deinit. *)

RegsDeinit ==
  /\ pc = "stopped"
  /\ REGmap' = Empty
  /\ pc' = "noregs"
  /\ UNCHANGED <<file, at, nth, PLCvec, capacity, buffer, opcvars>>

OpcDeinitMutant ==
  /\ pc = "noregs"
  /\ pc' = "noopc"
  /\ UNCHANGED <<file, at, nth, PLCvec, capacity, buffer, REGmap, opcvars>>

OpcDeinit ==
  /\ pc = "noregs"
  /\ opcvars' = Empty
  /\ pc' = "noopc"
  /\ UNCHANGED <<file, at, nth, PLCvec, capacity, buffer, REGmap>>

\* The vector keeps its capacity.  No pointer into it is left, so the model
\* may number its buffers from 1 again.
MbDeinit ==
  /\ pc = "noopc"
  /\ PLCvec' = <<>> /\ buffer' = 1
  /\ pc' = "out"
  /\ UNCHANGED <<file, at, nth, capacity, REGmap, opcvars>>

ConfigStep ==
  \/ \E f \in File : ReadFile(f)
  \/ SkipPlc \/ AddPlc \/ CreateEntries
  \/ NextSet \/ SkipVar \/ AddVar \/ ScadaDone \/ OpcRegsInit
  \/ RegsDeinit \/ OpcDeinit \/ MbDeinit

=============================================================================
