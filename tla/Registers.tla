----------------------------- MODULE Registers -----------------------------
(***************************************************************************)
(* The register layer at work (libs/reg/reg_plc.cpp): the program that     *)
(* module Config has loaded polls its first PLC while the register-refresh *)
(* task reads entries of several words and executes commands on them, one  *)
(* word at a time and without a lock.                                      *)
(*                                                                         *)
(* Of the driver only what the words tell is kept: an answer is copied     *)
(* register by register, a raised rupdate keeps a register from being      *)
(* overwritten until it is written (module MbMaster has the rest).  When   *)
(* the task executes a command is the matter of module RegSync.  Whatever  *)
(* it did with an entry, it puts it on the page of the REST server.        *)
(***************************************************************************)
EXTENDS Config

CONSTANT Command   \* names of the values clients write

VARIABLES
  dev,      \* the words in the device
  poll,     \* the polling thread: what it does, the answer, addresses left
  task,     \* the refresh task: what it does, with which entry, words left
  JSON_reg, \* the page: path -> type of the number shown
  cmd,      \* history: the last command of an entry, while it stands
  shown     \* history: entries that are on the page since they were loaded

page == <<JSON_reg, shown>>
run  == <<dev, poll, task, cmd, page>>
vars == <<config, run>>

NoPoll == [op |-> "idle", buf |-> Empty, left |-> {}]
NoTask == [op |-> "idle", n |-> NoSource, i |-> 0, val |-> Blank,
           bad |-> FALSE, torn |-> FALSE]

Addresses == IF PLCvec = <<>> THEN {} ELSE DOMAIN PLCvec[1].regs
Image == file.device    \* names of what all its registers may hold
Device(img) == [a \in Addresses |-> Word(img, a)]

\* The entries that this model lets the task read; the file names them.
Watched == file.watched \cap DOMAIN REGmap

RunInit ==
  /\ Init
  /\ dev = Empty /\ poll = NoPoll /\ task = NoTask /\ cmd = Empty
  /\ JSON_reg = Empty /\ shown = {}

\* tasks_start.
Start ==
  /\ pc = "ready"
  /\ pc' = "run"
  /\ dev' = Device(CHOOSE img \in Image : TRUE)
  /\ cmd' = [n \in Watched |-> Blank] /\ UNCHANGED shown
  /\ UNCHANGED <<file, at, nth, PLCvec, capacity, buffer, REGmap, opcvars,
                 poll, task, JSON_reg>>

\* deinit_all stops the tasks, each at the end of a run.
Stop ==
  /\ pc = "run" /\ poll.op = "idle" /\ task.op = "idle"
  /\ pc' = "stopped"
  /\ dev' = Empty /\ cmd' = Empty /\ shown' = {}
  /\ UNCHANGED <<file, at, nth, PLCvec, capacity, buffer, REGmap, opcvars,
                 poll, task, JSON_reg>>

-----------------------------------------------------------------------------
(* The polling thread and its device.                                      *)

loaded == <<file, pc, at, nth, capacity, buffer, opcvars>>

First(S) == CHOOSE a \in S : \A b \in S : a <= b
At(a) == [buf |-> buffer, plc |-> 1, addr |-> a]
Rest == [poll EXCEPT !.left = @ \ {First(@)}]

\* The answer is what the device holds: what it did, or other words since.
PollAnswered(now) ==
  /\ pc = "run" /\ poll.op = "idle" /\ Addresses # {}
  /\ dev' = now
  /\ poll' = [op |-> "copy", buf |-> now, left |-> Addresses]
  /\ UNCHANGED <<config, task, cmd, page>>

Rerrors(e) == PLCvec' = [PLCvec EXCEPT ![1].regs =
                           [a \in Addresses |-> [@[a] EXCEPT !.rerrors = e]]]

PollFails ==
  /\ pc = "run" /\ poll.op = "idle" /\ Addresses # {}
  /\ Rerrors(TRUE)
  /\ UNCHANGED <<loaded, REGmap, dev, poll, task, cmd, page>>

\* The registers an entry stands for.
Pointers(n) == {REGmap[n].ptr[i] : i \in Place} \ {Null}

\* Another word in register p ends the reign of all commands on it but m's.
Overruled(p, m) ==
  cmd' = [n \in DOMAIN cmd |-> IF p \in Pointers(n) /\ n # m THEN Blank ELSE cmd[n]]

\* A reading under way may get some words from before this and some from after.
Stored(p, w) ==
  /\ task' = [task EXCEPT !.torn = @ \/ task.op = "read"]
  /\ IF Reg(p).rvalue # w THEN Overruled(p, NoSource) ELSE UNCHANGED cmd

\* What read_allregs leaves in the register at a: a command that waits stays.
CopiedMutant(a) ==
  IF poll.left = {a} \/ Reg(At(a)).rupdate THEN Reg(At(a)).rvalue ELSE poll.buf[a]
Copied(a) == IF Reg(At(a)).rupdate THEN Reg(At(a)).rvalue ELSE poll.buf[a]

CopyReg ==
  /\ poll.op = "copy" /\ poll.left # {}
  /\ LET a == First(poll.left)
     IN /\ PLCvec' = [PLCvec EXCEPT ![1].regs[a].rvalue = Copied(a)]
        /\ Stored(At(a), Copied(a))
  /\ poll' = Rest
  /\ UNCHANGED <<loaded, REGmap, dev, page>>

CopyEnds ==
  /\ poll.op = "copy" /\ poll.left = {}
  /\ Rerrors(FALSE)
  /\ poll' = [op |-> "write", buf |-> Empty, left |-> Addresses]
  /\ UNCHANGED <<loaded, REGmap, dev, task, cmd, page>>

\* write_master: the next register has nothing to write, or is written, or
\* fails to be.
WriteReg(ok) ==
  /\ poll.op = "write" /\ poll.left # {}
  /\ LET a == First(poll.left) IN
     IF Reg(At(a)).rupdate
     THEN /\ dev' = IF ok THEN [dev EXCEPT ![a] = Reg(At(a)).rvalue] ELSE dev
          /\ PLCvec' = [PLCvec EXCEPT ![1].regs[a].rupdate = ~ok,
                                      ![1].regs[a].rerrors = ~ok]
     ELSE UNCHANGED <<dev, PLCvec>>
  /\ poll' = Rest
  /\ UNCHANGED <<loaded, REGmap, task, cmd, page>>

WriteEnds ==
  /\ poll.op = "write" /\ poll.left = {}
  /\ poll' = NoPoll
  /\ UNCHANGED <<config, dev, task, cmd, page>>

-----------------------------------------------------------------------------
(* The refresh task.                                                       *)

Entry(n) == REGmap[n]
Words(n) == 0 .. Entry(n).prop.rsize - 1

\* json_set_number and json_update: numbers without a type are shown as false,
\* and with the milliseconds of a PLC goes its status.
JsonNumber(x) == IF Known(x.ua) THEN x.ua ELSE "false"

JsonUpdate(n) ==
  LET p == REGmap[n].path
      Status == IF IsMillis(p) THEN {StatusPath(p)} ELSE {}
  IN /\ JSON_reg' = [q \in DOMAIN JSON_reg \cup {p} \cup Status |->
                        IF q = p THEN JsonNumber(REGmap[n].Number)
                        ELSE IF q \in Status THEN "INT16" ELSE JSON_reg[q]]
     /\ shown' = shown \cup {n}

\* get_plc_errors counts the words in error; one without a pointer has none.
get_plc_errors(n) ==
  \E i \in Words(n) : LET p == Entry(n).ptr[i] IN p # Null /\ Reg(p).rerrors

\* get_plc_value begins: entries of no word, and those of one word that is in
\* error or has a type only displays know, are converted at once.
ReadBegins(n) ==
  /\ pc = "run" /\ task.op = "idle"
  /\ Entry(n).kind # "scada"
  /\ LET e == Entry(n)
         none == e.prop.rsize = 1 /\ (get_plc_errors(n)
                                       \/ e.prop.rtype \in {"HEX", "BINARY"})
     IN task' = [op |-> "read", n |-> n, i |-> IF none THEN 0 ELSE e.prop.rsize,
                 val |-> Blank, bad |-> get_plc_errors(n),
                 torn |-> poll.op = "copy"]
  /\ UNCHANGED <<config, dev, poll, cmd, page>>

\* get_plc_reg, for the words from the last to the first: var_errors is what
\* the register looked at last had.
ReadWord ==
  /\ task.op = "read" /\ task.i > 0
  /\ LET i == task.i - 1
         p == Entry(task.n).ptr[i]
         e == IF p = Null THEN Entry(task.n).var_errors ELSE Reg(p).rerrors
         w == IF p = Null \/ e THEN BadReg ELSE Reg(p).rvalue
     IN /\ task' = [task EXCEPT !.i = i, !.val[i] = w]
        /\ REGmap' = [REGmap EXCEPT ![task.n].var_errors = e]
  /\ UNCHANGED <<loaded, PLCvec, dev, poll, cmd, page>>

ReadEnds ==
  /\ task.op = "read" /\ task.i = 0
  /\ REGmap' = [REGmap EXCEPT ![task.n].Number.value =
                  Converted(Entry(task.n).prop, @, task.val, task.bad)]
  /\ JsonUpdate(task.n)
  /\ task' = NoTask
  /\ UNCHANGED <<loaded, PLCvec, dev, poll, cmd>>

\* What a client can write to entry n.
Commands(n) ==
  LET p == Entry(n).prop
  IN {IF p.rbyteorder \in {"F10", "F100"} THEN Computed(p.rbyteorder, 2, Word(c, 0))
      ELSE [i \in Place |-> IF i < p.rsize THEN Word(c, i) ELSE Zero]
        : c \in Command}

\* The task executes a command on a writable entry without errors.
WriteBegins(n, v) ==
  /\ pc = "run" /\ task.op = "idle"
  /\ Entry(n).kind # "scada" /\ Entry(n).rw /\ ~get_plc_errors(n)
  /\ task' = [op |-> "write", n |-> n, i |-> 0, val |-> v, bad |-> FALSE,
              torn |-> FALSE]
  /\ cmd' = [cmd EXCEPT ![n] = IF \A p \in Pointers(n) : Reg(p).rmode THEN v ELSE Blank]
  /\ UNCHANGED <<config, dev, poll, page>>

\* The register that gets word i of a value.
TargetMutant(n, i) == Entry(n).ptr[Entry(n).prop.rsize - 1 - i]
Target(n, i) == Entry(n).ptr[i]

\* set_plc_value gives word i to register i, whatever the order of the type;
\* set_reg takes it only where the register itself is writable.
WriteWord ==
  /\ task.op = "write" /\ task.i \in Words(task.n)
  /\ LET p == Target(task.n, task.i)
         w == task.val[task.i]
     IN IF p # Null /\ Reg(p).rmode /\ Reg(p).rvalue # w
        THEN /\ PLCvec' = [PLCvec EXCEPT ![p.plc].regs[p.addr].rvalue = w,
                                         ![p.plc].regs[p.addr].rupdate = TRUE]
             /\ Overruled(p, task.n)
        ELSE UNCHANGED <<PLCvec, cmd>>
  /\ task' = [task EXCEPT !.i = @ + 1]
  /\ UNCHANGED <<loaded, REGmap, dev, poll, page>>

\* ... and set_local_value gives it to the entry.
WriteDone ==
  /\ task.op = "write" /\ task.i \notin Words(task.n)
  /\ REGmap' = [REGmap EXCEPT ![task.n].Number.value = task.val]
  /\ JsonUpdate(task.n)
  /\ task' = NoTask
  /\ UNCHANGED <<loaded, PLCvec, dev, poll, cmd>>

\* What the server's copy of an entry's variable may hold: the same as before,
\* or what a client has written; ReadRawUnion gives 0 where there is no variable.
OpcValues(n) ==
  IF IsVariable(GetVarFullName(n)) THEN Commands(n) \cup {Entry(n).Number.value}
                                   ELSE {Blank}

\* An entry that is only a variable takes that value.
TakeOpc(n, v) ==
  /\ pc = "run" /\ task.op = "idle"
  /\ Entry(n).kind = "scada"
  /\ REGmap' = [REGmap EXCEPT ![n].Number.value = v,
                              ![n].var_errors = ~IsVariable(Entry(n).path)]
  /\ JsonUpdate(n)
  /\ UNCHANGED <<loaded, PLCvec, dev, poll, task, cmd>>

-----------------------------------------------------------------------------
Poller ==
  \/ \E now \in {dev} \cup {Device(img) : img \in Image} : PollAnswered(now)
  \/ PollFails \/ CopyReg \/ CopyEnds
  \/ \E ok \in BOOLEAN : WriteReg(ok)
  \/ WriteEnds

Refresher ==
  \/ \E n \in Watched : ReadBegins(n) \/ \E v \in Commands(n) : WriteBegins(n, v)
  \/ ReadWord \/ ReadEnds \/ WriteWord \/ WriteDone
  \/ \E n \in Watched : \E v \in OpcValues(n) : TakeOpc(n, v)

Next ==
  \/ ConfigStep /\ UNCHANGED run
  \/ Start \/ Stop
  \/ Poller \/ Refresher

Spec == RunInit /\ [][Next]_vars

-----------------------------------------------------------------------------
(* What the file asks for.                                                 *)

Wanted == {c \in SetOf(file.plc) : c.complete /\ (file.all \/ c.name \in SetOf(file.list))}
Sets   == {c \in SetOf(file.scada) : c.complete}

\* The variables that are taken: <<set, variable>>.
Given == {<<c, v>> : c \in Sets, v \in UNION {SetOf(d.vars) : d \in Sets}}
Taken == {x \in Given : x[2] \in SetOf(x[1].vars) /\ check_type(x[2].type)}

\* No two things in the file have one name or, in one PLC, one address.
Different(seq, f(_)) ==
  \A i, j \in DOMAIN seq : f(seq[i]) = f(seq[j]) => i = j
NoTwins ==
  /\ \A c \in SetOf(file.plc), d \in Sets : c.name # SetName(d)
  /\ Different(file.plc, LAMBDA c : c.name)
  /\ \A c \in SetOf(file.plc) : /\ Different(c.regs, LAMBDA r : r.addr)
                                /\ Different(c.regs, LAMBDA r : r.name)
  /\ Different(file.scada, LAMBDA c : SetName(c))
  /\ \A c \in Sets : Different(c.vars, LAMBDA v : v.name)

\* The register that the full name n stands for: its PLC and address.
RegOf(n) == LET c == CHOOSE x \in Wanted : x.name = n[1]
                r == CHOOSE x \in SetOf(c.regs) : x.name = n[2]
            IN [plc |-> c.name, addr |-> r.addr]

PlcNames == UNION {{FullName(c.name, r.name) : r \in SetOf(c.regs)} : c \in Wanted}
Refs     == {x \in Taken : x[2].source \in PlcNames}
RefName(x) == FullName(SetName(x[1]), x[2].name)

\* The words that entry n should show, of the PLC and from the address that
\* the file names.
Origin(n) == IF n \in PlcNames THEN RegOf(n)
             ELSE RegOf((CHOOSE x \in Refs : RefName(x) = n)[2].source)
PlcAt(name) == CHOOSE k \in DOMAIN PLCvec : PLCvec[k].name = name
Asked(n) == [i \in Words(n) |-> PLCvec[PlcAt(Origin(n).plc)].regs[Origin(n).addr + i]]

-----------------------------------------------------------------------------
(* Properties.                                                             *)

Loaded == pc \in {"scada", "opc", "ready", "run"}

\* Types.
TypeOK ==
  /\ file \in File
  /\ pc \in {"out", "plc", "scada", "opc", "ready", "run", "stopped", "noregs",
             "noopc", "failed", "crashed"}
  /\ at \in Nat /\ nth \in Nat /\ capacity \in Nat /\ buffer \in Nat
  /\ Len(PLCvec) <= capacity
  /\ \A n \in DOMAIN REGmap : REGmap[n].Number.words \in {1, 2, 4}

\* Where every record has a name of its own, no pointer to a register ever
\* leads into a buffer the vector of PLCs has left, nor behind PLCs that are
\* gone, and no PLC has lost its mutex: through loading, taking down and
\* loading another file (cfg_init_plcset, init_regs, deinit_all).
NothingDangles ==
  NoTwins =>
    /\ \A k \in DOMAIN PLCvec :
         /\ PLCvec[k].lock = "live"
         /\ \A r \in SetOf(PLCvec[k].regs) : r.r_next = Null \/ Exists(r.r_next)
    /\ \A n \in DOMAIN REGmap : \A i \in Place :
         LET p == REGmap[n].ptr[i] IN p = Null \/ Exists(p)

\* A file without twins is taken as it is written: the entries are those of
\* its listed PLCs and its variables, nothing of a file before it is among
\* them, and what is published for them has their type, and a folder to be in,
\* and is shown as of this type by the page as soon as it has come there.
TakenAsWritten ==
  NoTwins /\ pc \in {"ready", "run"} =>
    /\ PlcNames \subseteq DOMAIN REGmap
    /\ \A x \in Refs : RefName(x) \in DOMAIN REGmap
    /\ DOMAIN REGmap \subseteq PlcNames \cup {RefName(x) : x \in Taken}
    /\ \A n \in DOMAIN REGmap :
         LET e == REGmap[n] IN
         e.prop.rtype \in Published /\ n[2] # "status" =>
           /\ GetVarFullName(n) = e.path
           /\ opcvars[e.path] = type_attr[e.prop.rtype].ua
           /\ e.path.folders # <<>> => opcvars[Parent(e.path)] = "folder"
           /\ n \in shown => JSON_reg[e.path] = opcvars[e.path]

\* Loading stops at a null pointer only at a variable that asks for more
\* words than the file has registers in a row from its source.
GapsOnlyCrash ==
  pc = "crashed" /\ NoTwins =>
    LET p == SourcePtr(Here) IN
    \E c \in Wanted : \E i \in 1 .. TypeOf(Here).rsize - 1 :
      /\ c.name = PLCvec[p.plc].name
      /\ p.addr + i \notin {q.addr : q \in SetOf(c.regs)}
      /\ Here.source \in PlcNames => RegOf(Here.source) = [plc |-> c.name, addr |-> p.addr]

\* Entry n ends a reading that nothing disturbed.
Calm(n) ==
  /\ task.op = "read" /\ task.i = 0 /\ task.n = n /\ task' = NoTask
  /\ ~task.torn /\ ~task.bad /\ ~get_plc_errors(n)
  /\ NoTwins /\ (n \in PlcNames \/ \E x \in Refs : RefName(x) = n)

New(n) == REGmap'[n].Number.value

\* An undisturbed reading shows the registers the file names, in the word and
\* byte order its type is named for in reg_datatype.h.
ShownAsNamed ==
  [][\A n \in DOMAIN REGmap : Calm(n) =>
       LET p == REGmap[n].prop
           w == [i \in Words(n) |-> Asked(n)[i].rvalue]
       IN /\ p.rbyteorder \in {"BE", "BS", "LE", "LS"} =>
               Layout(p.rbyteorder, New(n), p.rsize) = w
          /\ p.rbyteorder = "SNGL" => New(n)[0] = w[0]
          /\ p.rbyteorder \in {"F10", "F100"} =>
               New(n) = Computed(p.rbyteorder, 2, w[0])]_vars

\* A number of several read-only words never mixes two answers of the device,
\* nor an answer with what stood there before the first, unless it was read
\* while an answer was being copied (read_allregs copies register by register,
\* and no lock holds the refresh task off).
WholeUnlessTorn ==
  [][\A n \in DOMAIN REGmap : Calm(n) /\ (\A i \in Words(n) : ~Asked(n)[i].rmode) =>
       \/ \A i \in Words(n) : Asked(n)[i].rvalue = NotYet
       \/ \E img \in Image : \A i \in Words(n) :
            Asked(n)[i].rvalue = Word(img, Origin(n).addr + i)]_vars

\* A command on an entry of a type that is not scaled and has its low word
\* first is read back as it was given, while nobody changes its registers:
\* for these the task sees no news in its own command.  ("byte-order not
\* supported yet", set_plc_value; for the others it does.)
CommandReadsBack ==
  [][\A n \in DOMAIN cmd : Calm(n) /\ cmd[n] # Blank =>
       (REGmap[n].prop.rbyteorder \in {"SNGL", "LS"} <=> New(n) = cmd[n])]_vars

=============================================================================
