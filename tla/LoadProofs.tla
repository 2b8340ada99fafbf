------------------------------ MODULE LoadProofs ------------------------------
(***************************************************************************)
(* Theorems about loading (Config, Registers), for any configuration       *)
(* files: from loading to taking down no pointer between entries and       *)
(* registers dangles, loading stops at a null one only for a gap, and a    *)
(* file is taken as it is written.                                         *)
(***************************************************************************)
EXTENDS RegistersProofs

-----------------------------------------------------------------------------
(* No pointer dangles.                                                     *)

To(p, i) == [buf |-> p.buf, plc |-> p.plc, addr |-> p.addr + i]
AddressesOf(c) == {r.addr : r \in SetOf(c.regs)}

\* The k-th PLC is what record c asks for, and keeps its mutex; the pointers of
\* its registers lead to their neighbours.
ObjectOf(k, c) ==
  LET D == PLCvec[k] IN
  /\ D.name = c.name /\ D.folder = c.folder /\ D.lock = "live"
  /\ DOMAIN D.regs = AddressesOf(c)
  /\ \A r \in SetOf(c.regs) :
       LET q == D.regs[r.addr] IN
       /\ q.name = r.name /\ q.folder = r.folder /\ q.rmode = r.rw
       /\ q.r_next = IF r.addr + 1 \in AddressesOf(c)
                     THEN [buf |-> buffer, plc |-> k, addr |-> r.addr + 1] ELSE Null

Made ==
  /\ \A k \in DOMAIN PLCvec : \E c \in Wanted : ObjectOf(k, c)
  /\ \A j, k \in DOMAIN PLCvec : PLCvec[j].name = PLCvec[k].name => j = k

\* While PLCs are added: what has been reserved is enough for all of them, as
\* each is a record that has been passed, and none of these is missing.
Room ==
  pc = "plc" =>
    /\ capacity >= (IF file.all THEN Len(file.plc) ELSE Len(file.list))
    /\ Len(PLCvec) < at
    /\ \A k \in DOMAIN PLCvec :
         \E i \in DOMAIN file.plc : i < at /\ file.plc[i].name = PLCvec[k].name
    /\ \A i \in DOMAIN file.plc : i < at /\ file.plc[i] \in Wanted =>
         \E k \in DOMAIN PLCvec : PLCvec[k].name = file.plc[i].name

\* ... and none is missing afterwards.
HasAll ==
  pc \in {"scada", "opc", "ready", "run", "stopped", "noregs", "noopc", "crashed"} =>
    \A c \in Wanted : \E k \in DOMAIN PLCvec : PLCvec[k].name = c.name

\* The pointers of an entry lead to registers in a row, or nowhere.
EntryRuns(e) ==
  LET p == e.ptr[0] IN
  \/ \A i \in Place : e.ptr[i] = Null
  \/ /\ Exists(p)
     /\ \A i \in Place : IF i < e.prop.rsize THEN e.ptr[i] = To(p, i) /\ Exists(To(p, i))
                                             ELSE e.ptr[i] = Null

\* The entry of the name n has the one register of that name in the file.
EntryOfReg(n, e) ==
  LET p == e.ptr[0] IN
  /\ e.kind = "modbus" /\ e.prop.rsize = 1 /\ Exists(p)
  /\ RegOf(n) = [plc |-> PLCvec[p.plc].name, addr |-> p.addr]

Led == \A n \in DOMAIN REGmap : EntryRuns(REGmap[n])
Origins == \A n \in DOMAIN REGmap \cap PlcNames : EntryOfReg(n, REGmap[n])

\* Why loading has stopped at a null pointer.
Gap ==
  LET p == SourcePtr(Here) IN
  /\ ~IsLocal(Here) /\ Here.source \in DOMAIN REGmap /\ Exists(p)
  /\ \E c \in Wanted : \E i \in 1 .. TypeOf(Here).rsize - 1 :
       /\ c.name = PLCvec[p.plc].name
       /\ p.addr + i \notin AddressesOf(c)
       /\ Here.source \in PlcNames => RegOf(Here.source) = [plc |-> c.name, addr |-> p.addr]

Sane == NoTwins => Made /\ Room /\ HasAll /\ Led /\ Origins /\ (pc = "crashed" => Gap)

\* A list that each of n different names is in is not shorter than n.
LEMMA NamesFit ==
  ASSUME NEW list, IsSeq(list), NEW n \in Nat, NEW name,
         \A k \in 1 .. n : name[k] \in SetOf(list),
         \A j, k \in 1 .. n : name[j] = name[k] => j = k
  PROVE  n <= Len(list)
<1> DEFINE place == [k \in 1 .. n |-> CHOOSE i \in 1 .. Len(list) : list[i] = name[k]]
<1>1. Len(list) \in Nat /\ DOMAIN list = 1 .. Len(list)
  BY SeqParts
<1>2. ASSUME NEW k \in 1 .. n
      PROVE  place[k] \in 1 .. Len(list) /\ list[place[k]] = name[k]
  <2>1. \E i \in 1 .. Len(list) : list[i] = name[k]
    BY <1>1 DEF SetOf
  <2> QED  BY <2>1
<1>3. place \in [1 .. n -> 1 .. Len(list)]
  BY <1>2
<1>4. \A j, k \in 1 .. n : place[j] = place[k] => j = k
  BY <1>2
<1>5. \A m \in Nat : IsFiniteSet(1 .. m) /\ Cardinality(1 .. m) = m
  BY SMT, FS_Interval
<1> HIDE DEF place
<1>6. ~(Cardinality(1 .. Len(list)) < Cardinality(1 .. n))
  BY <1>1, <1>3, <1>4, <1>5, FS_PigeonHole
<1> QED  BY SMT, <1>1, <1>5, <1>6

\* The sizes of the table.
LEMMA Sizes == \A s : check_type(s) => regprop_map[s].rsize \in {0, 1, 2, 4}
<1>1. \A ua, size, be, bs, le, ls : \A r \in Wide(ua, size, be, bs, le, ls) : r.rsize = size
  BY SMT DEF Wide, Row
<1>2. \A names, ua, size, order : Row(names, ua, size, order).rsize = size
  BY SMT DEF Row
<1>3. \A r \in Rows : r.rsize \in {0, 1, 2, 4}
  BY SMT, <1>1, <1>2 DEF Rows
<1>4. ASSUME NEW s \in TypeNames PROVE regprop_map[s] \in Rows
  <2>1. \E r \in Rows : s \in r.names
    BY DEF TypeNames
  <2>2. regprop_map[s] = CHOOSE r \in Rows : s \in r.names
    BY DEF regprop_map
  <2> QED  BY <2>1, <2>2
<1> QED  BY <1>3, <1>4 DEF check_type

\* What there is once only in a file without twins.
LEMMA OwnNames ==
  ASSUME NoTwins
  PROVE  /\ \A i, j \in DOMAIN file.plc : file.plc[i].name = file.plc[j].name => i = j
         /\ \A c, d \in Wanted : c.name = d.name => c = d
         /\ \A c \in Wanted : \A i, j \in DOMAIN c.regs :
              c.regs[i].addr = c.regs[j].addr \/ c.regs[i].name = c.regs[j].name => i = j
         /\ \A c \in Wanted, d \in Sets : c.name # SetName(d)
<1>1. \A i, j \in DOMAIN file.plc : file.plc[i].name = file.plc[j].name => i = j
  BY DEF NoTwins, Different
<1>2. \A c \in Wanted : c \in SetOf(file.plc) /\ \E i \in DOMAIN file.plc : c = file.plc[i]
  BY DEF Wanted, SetOf
<1>3. \A c \in Wanted : \A i, j \in DOMAIN c.regs :
        c.regs[i].addr = c.regs[j].addr \/ c.regs[i].name = c.regs[j].name => i = j
  BY Zenon, <1>2 DEF NoTwins, Different
<1>4. \A c \in Wanted, d \in Sets : c.name # SetName(d)
  BY Zenon, <1>2 DEF NoTwins
<1>5. \A c, d \in Wanted : c.name = d.name => c = d
  <2> SUFFICES ASSUME NEW c \in Wanted, NEW d \in Wanted, c.name = d.name PROVE c = d
    OBVIOUS
  <2>1. PICK i \in DOMAIN file.plc, j \in DOMAIN file.plc : c = file.plc[i] /\ d = file.plc[j]
    BY <1>2
  <2> QED  BY <1>1, <2>1
<1> QED  BY <1>1, <1>3, <1>4, <1>5

LEMMA SameFile ==
  ASSUME file' = file
  PROVE  /\ NoTwins' = NoTwins /\ Wanted' = Wanted /\ PlcNames' = PlcNames
         /\ \A n : RegOf(n)' = RegOf(n)
<1>1. NoTwins' = NoTwins
  BY DEF NoTwins, Different, Sets, SetOf
<1>2. Wanted' = Wanted
  BY DEF Wanted
<1>3. PlcNames' = PlcNames
  BY <1>2 DEF PlcNames
<1>4. \A n : RegOf(n)' = RegOf(n)
  BY <1>2 DEF RegOf
<1> QED  BY <1>1, <1>2, <1>3, <1>4

\* What the parser makes of the records of PLCs and of sets.
LEMMA RecordParts ==
  ASSUME Scalars
  PROVE  /\ \A c \in Wanted : /\ IsSeq(c.regs) /\ \A r \in SetOf(c.regs) : r.addr \in Nat
                              /\ \A i \in DOMAIN c.regs : c.regs[i].addr \in Nat
         /\ \A c \in Sets : IsSeq(c.vars)
BY Zenon, FilesAssumption DEF Scalars, Wanted, Sets, SetOf

\* The register that a name stands for.
LEMMA RegOfName ==
  ASSUME NoTwins, NEW c \in Wanted, NEW r \in SetOf(c.regs)
  PROVE  /\ FullName(c.name, r.name) \in PlcNames
         /\ RegOf(FullName(c.name, r.name)) = [plc |-> c.name, addr |-> r.addr]
<1>1. FullName(c.name, r.name) \in PlcNames
  BY DEF PlcNames
<1>2. c = CHOOSE x \in Wanted : x.name = c.name
  BY OwnNames
<1>3. \A s \in SetOf(c.regs) : s.name = r.name => s = r
  BY OwnNames DEF SetOf
<1>4. r = CHOOSE s \in SetOf(c.regs) : s.name = r.name
  BY <1>3
<1>5. FullName(c.name, r.name)[1] = c.name /\ FullName(c.name, r.name)[2] = r.name
  BY DEF FullName
<1> QED  BY Zenon, <1>1, <1>2, <1>4, <1>5 DEF RegOf

\* Under NoTwins no buffer is full when a PLC is added.
LEMMA NotFull ==
  ASSUME Shape, NoTwins, Made, Room, AddPlc
  PROVE  /\ Len(PLCvec) < capacity
         /\ \A k \in DOMAIN PLCvec : PLCvec[k].name # file.plc[at].name
<1> DEFINE c == file.plc[at]
           size == Len(PLCvec)
<1>1. /\ size \in Nat /\ DOMAIN PLCvec = 1 .. size
      /\ at \in Nat /\ capacity \in Nat
      /\ DOMAIN file.plc = 1 .. Len(file.plc) /\ Len(file.plc) \in Nat
      /\ IsSeq(file.list) /\ Len(file.list) \in Nat
  BY SeqParts, FileParts DEF Shape, Scalars, Vector
<1>2. /\ pc = "plc" /\ at <= Len(file.plc) /\ Listed(c)
  BY Zenon DEF AddPlc
<1>3. /\ capacity >= (IF file.all THEN Len(file.plc) ELSE Len(file.list))
      /\ size < at
      /\ \A k \in 1 .. size :
           \E i \in DOMAIN file.plc : i < at /\ file.plc[i].name = PLCvec[k].name
  BY Zenon, <1>1, <1>2 DEF Room
<1>4. at \in DOMAIN file.plc
  BY SMT, <1>1, <1>2, <1>3
<1>5. \A k \in 1 .. size : PLCvec[k].name # c.name
  <2> SUFFICES ASSUME NEW k \in 1 .. size, PLCvec[k].name = c.name PROVE FALSE
    OBVIOUS
  <2>1. PICK i \in DOMAIN file.plc : i < at /\ file.plc[i].name = PLCvec[k].name
    BY <1>3
  <2>2. i = at
    BY <1>4, <2>1, OwnNames
  <2> QED  BY SMT, <1>1, <2>1, <2>2
<1>6. /\ \A k \in 1 .. size : file.all \/ PLCvec[k].name \in SetOf(file.list)
      /\ \A j, k \in 1 .. size : PLCvec[j].name = PLCvec[k].name => j = k
  BY Zenon, <1>1 DEF Made, ObjectOf, Wanted
<1>7. size < capacity
  <2>1. CASE file.all
    BY SMT, <1>1, <1>2, <1>3, <2>1
  <2>2. CASE ~file.all
    <3>1. PICK name : name = [k \in 1 .. size + 1 |->
                                IF k = size + 1 THEN c.name ELSE PLCvec[k].name]
      OBVIOUS
    <3>2. /\ name[size + 1] = c.name
          /\ \A k \in 1 .. size : name[k] = PLCvec[k].name
          /\ \A k \in 1 .. size + 1 : k = size + 1 \/ k \in 1 .. size
      BY SMT, <1>1, <3>1
    <3>3. \A k \in 1 .. size + 1 : name[k] \in SetOf(file.list)
      BY Zenon, <1>2, <1>6, <2>2, <3>2 DEF Listed
    <3>4. \A j, k \in 1 .. size + 1 : name[j] = name[k] => j = k
      <4> SUFFICES ASSUME NEW j \in 1 .. size + 1, NEW k \in 1 .. size + 1,
                          name[j] = name[k]
                   PROVE  j = k
        OBVIOUS
      <4>1. CASE j \in 1 .. size /\ k \in 1 .. size
        BY <1>6, <3>2, <4>1
      <4>2. CASE j = size + 1 \/ k = size + 1
        <5>1. \A m \in 1 .. size : name[m] # name[size + 1]
          BY <1>5, <3>2
        <5> QED  BY <3>2, <4>2, <5>1
      <4> QED  BY <3>2, <4>1, <4>2
    <3>5. size + 1 \in Nat
      BY SMT, <1>1
    <3>6. size + 1 <= Len(file.list)
      BY Zenon, <1>1, <3>3, <3>4, <3>5, NamesFit
    <3> QED  BY SMT, <1>1, <1>3, <2>2, <3>6
  <2> QED  BY <2>1, <2>2
<1> QED  BY <1>1, <1>5, <1>7

LEMMA NextOf ==
  ASSUME NEW b, NEW k, NEW a
  PROVE  [[buf |-> b, plc |-> k, addr |-> 0] EXCEPT !.addr = a]
           = [buf |-> b, plc |-> k, addr |-> a]
BY SMT

\* What AddPlc makes of record c is a PLC as the record asks for.
LEMMA ObjectMade ==
  ASSUME Scalars, NoTwins, NEW c \in Wanted, NEW b, NEW k, NEW here,
         here = [buf |-> b, plc |-> k, addr |-> 0],
         NEW D, D = PlcObject(c, here)
  PROVE  /\ D.name = c.name /\ D.folder = c.folder /\ D.lock = "live"
         /\ DOMAIN D.regs = AddressesOf(c)
         /\ \A r \in SetOf(c.regs) :
              LET q == D.regs[r.addr] IN
              /\ q.name = r.name /\ q.folder = r.folder /\ q.rmode = r.rw
              /\ q.r_next = IF r.addr + 1 \in AddressesOf(c)
                            THEN [buf |-> b, plc |-> k, addr |-> r.addr + 1] ELSE Null
<1> DEFINE A == AddressesOf(c)
<1>1. /\ D.name = c.name /\ D.folder = c.folder /\ D.lock = "live"
      /\ DOMAIN D.regs = A
      /\ \A a \in A : D.regs[a] = Register(c.regs[LastAt(c.regs, a)], here, A)
  <2>1. PICK T : T = [a \in A |-> Register(c.regs[LastAt(c.regs, a)], here, A)]
    OBVIOUS
  <2>2. D = [name |-> c.name, folder |-> c.folder, lock |-> "live", regs |-> T]
    BY Zenon, <2>1 DEF PlcObject, AddressesOf
  <2>3. DOMAIN T = A /\ \A a \in A : T[a] = Register(c.regs[LastAt(c.regs, a)], here, A)
    BY Zenon, <2>1
  <2> QED  BY SMT, <2>2, <2>3
<1>2. ASSUME NEW r \in SetOf(c.regs)
      PROVE  D.regs[r.addr] = Register(r, here, A)
  <2>1. PICK i \in DOMAIN c.regs : r = c.regs[i]
    BY DEF SetOf
  <2>2. {j \in DOMAIN c.regs : c.regs[j].addr = r.addr} = {i}
    BY Zenon, <2>1, OwnNames
  <2>3. i <= i
    BY SMT, RecordParts, SeqParts
  <2>4. LastAt(c.regs, r.addr) = i
    BY <2>2, <2>3 DEF LastAt
  <2> QED  BY Zenon, <1>1, <2>1, <2>4 DEF AddressesOf
<1>3. ASSUME NEW r \in SetOf(c.regs)
      PROVE  LET q == D.regs[r.addr] IN
             /\ q.name = r.name /\ q.folder = r.folder /\ q.rmode = r.rw
             /\ q.r_next = IF r.addr + 1 \in A
                           THEN [buf |-> b, plc |-> k, addr |-> r.addr + 1] ELSE Null
  <2> HIDE DEF A
  <2>1. [here EXCEPT !.addr = r.addr + 1] = [buf |-> b, plc |-> k, addr |-> r.addr + 1]
    BY NextOf
  <2>2. PICK n : n = [here EXCEPT !.addr = r.addr + 1]
    OBVIOUS
  <2>3. PICK q : q = [name |-> r.name, folder |-> r.folder, rmode |-> r.rw,
                      rvalue |-> NotYet, rupdate |-> FALSE, rerrors |-> FALSE,
                      r_next |-> IF r.addr + 1 \in A THEN n ELSE Null]
    OBVIOUS
  <2>4. D.regs[r.addr] = q
    BY Zenon, <1>2, <2>2, <2>3 DEF Register, HasNext
  <2>5. /\ q.name = r.name /\ q.folder = r.folder /\ q.rmode = r.rw
        /\ q.r_next = IF r.addr + 1 \in A THEN n ELSE Null
    BY SMT, <2>3
  <2> QED  BY Zenon, <2>1, <2>2, <2>4, <2>5
<1> QED  BY Zenon, <1>1, <1>3

-----------------------------------------------------------------------------
(* Pointers.                                                               *)

LEMMA NullIsNone == Vector => ~Exists(Null)
<1>1. Null.plc = 0
  BY SMT DEF Null
<1>2. Vector => 0 \notin DOMAIN PLCvec
  BY SMT, SeqParts DEF Vector
<1> QED  BY <1>1, <1>2 DEF Exists

\* What is known of a pointer that leads somewhere.
LEMMA Pointed ==
  ASSUME Shape, NoTwins, Made, NEW p, Exists(p)
  PROVE  /\ p.addr \in Nat
         /\ \E c \in Wanted : \E r \in SetOf(c.regs) :
              /\ ObjectOf(p.plc, c) /\ r.addr = p.addr
              /\ PLCvec[p.plc].name = c.name /\ Reg(p).name = r.name
<1>1. p.buf = buffer /\ p.plc \in DOMAIN PLCvec /\ p.addr \in DOMAIN PLCvec[p.plc].regs
  BY DEF Exists
<1>2. PICK c \in Wanted : ObjectOf(p.plc, c)
  BY <1>1 DEF Made
<1>3. PICK r \in SetOf(c.regs) : r.addr = p.addr
  BY <1>1, <1>2 DEF ObjectOf, AddressesOf
<1>4. PLCvec[p.plc].name = c.name /\ Reg(p).name = r.name
  BY <1>2, <1>3 DEF ObjectOf, Reg
<1>5. p.addr \in Nat
  BY <1>3, RecordParts DEF Shape
<1> QED  BY Zenon, <1>2, <1>3, <1>4, <1>5

\* The neighbour of the register that a pointer leads to.
LEMMA NextLink ==
  ASSUME Shape, NoTwins, Made, NEW p, Exists(p)
  PROVE  Reg(p).r_next = IF Exists(To(p, 1)) THEN To(p, 1) ELSE Null
<1>1. PICK c \in Wanted : ObjectOf(p.plc, c) /\ \E r \in SetOf(c.regs) : r.addr = p.addr
  BY Zenon, Pointed
<1>2. Reg(p).r_next = IF p.addr + 1 \in AddressesOf(c)
                      THEN [buf |-> buffer, plc |-> p.plc, addr |-> p.addr + 1] ELSE Null
  BY Zenon, <1>1 DEF ObjectOf, Reg
<1>3. p.buf = buffer /\ p.plc \in DOMAIN PLCvec
  BY DEF Exists
<1>4. To(p, 1) = [buf |-> buffer, plc |-> p.plc, addr |-> p.addr + 1]
  BY <1>3 DEF To
<1>5. To(p, 1).buf = buffer /\ To(p, 1).plc = p.plc /\ To(p, 1).addr = p.addr + 1
  BY SMT, <1>4
<1>6. DOMAIN PLCvec[p.plc].regs = AddressesOf(c)
  BY <1>1 DEF ObjectOf
<1>7. Exists(To(p, 1)) <=> p.addr + 1 \in AddressesOf(c)
  BY Zenon, <1>3, <1>5, <1>6 DEF Exists
<1> QED  BY Zenon, <1>2, <1>4, <1>7

\* The recursive function of the model, link by link.
LEMMA ChainLinks ==
  ASSUME NEW p
  PROVE  /\ Chain(p)[0] = p
         /\ \A i \in {1, 2, 3} :
              Chain(p)[i] = IF Chain(p)[i - 1] = Null THEN Null
                            ELSE Reg(Chain(p)[i - 1]).r_next
<1> DEFINE next(q) == IF q = Null THEN Null ELSE Reg(q).r_next
           Is(c) == c = [i \in Place |-> IF i = 0 THEN p ELSE next(c[i - 1])]
<1>1. \E c : Is(c)
  <2> HIDE DEF next
  <2>1. PICK c : c = [i \in Place |-> IF i = 0 THEN p ELSE IF i = 1 THEN next(p)
                                      ELSE IF i = 2 THEN next(next(p))
                                      ELSE next(next(next(p)))]
    OBVIOUS
  <2>2. c[0] = p /\ c[1] = next(p) /\ c[2] = next(next(p)) /\ c[3] = next(next(next(p)))
    BY SMT, <2>1 DEF Place
  <2>3. \A i \in Place : c[i] = IF i = 0 THEN p ELSE next(c[i - 1])
    BY SMT, <2>2 DEF Place
  <2>4. c = [i \in Place |-> c[i]]
    BY SMT, <2>1
  <2>5. c = [i \in Place |-> IF i = 0 THEN p ELSE next(c[i - 1])]
    <3>1. PICK g : g = [i \in Place |-> IF i = 0 THEN p ELSE next(c[i - 1])]
      OBVIOUS
    <3>2. g = [i \in Place |-> g[i]] /\ \A i \in Place : g[i] = c[i]
      BY SMT, <2>3, <3>1
    <3>3. g = c
      BY SMT, <2>4, <3>2
    <3> QED  BY <3>1, <3>3
  <2> QED  BY <2>5
<1>2. Chain(p) = CHOOSE c : Is(c)
  BY DEF Chain
<1>3. Is(Chain(p))
  BY <1>1, <1>2
<1>4. PICK c : c = Chain(p)
  OBVIOUS
<1>5. c = [i \in Place |-> IF i = 0 THEN p ELSE next(c[i - 1])]
  BY <1>3, <1>4
<1> HIDE DEF next
<1>6. c[0] = p /\ \A i \in {1, 2, 3} : c[i] = next(c[i - 1])
  BY SMT, <1>5 DEF Place
<1> QED  BY <1>4, <1>6 DEF next

LEMMA ToTo ==
  ASSUME NEW p, p.addr \in Nat, NEW i \in Nat
  PROVE  /\ To(To(p, i), 1) = To(p, i + 1)
         /\ To(p, 0).addr = p.addr /\ To(p, i).plc = p.plc
         /\ To(p, i).addr = p.addr + i
BY SMT DEF To

\* The chain from a register, as far as it leads: the registers in a row.
LEMMA ChainRuns ==
  ASSUME Shape, NoTwins, Made, NEW p, Exists(p), p = To(p, 0)
  PROVE  /\ Chain(p)[0] = p
         /\ \A i \in {1, 2, 3} :
              (\A j \in 0 .. i - 1 : Chain(p)[j] = To(p, j) /\ Exists(To(p, j))) =>
                Chain(p)[i] = IF Exists(To(p, i)) THEN To(p, i) ELSE Null
<1>1. Chain(p)[0] = p
  BY ChainLinks
<1>2. ASSUME NEW i \in {1, 2, 3},
             \A j \in 0 .. i - 1 : Chain(p)[j] = To(p, j) /\ Exists(To(p, j))
      PROVE  Chain(p)[i] = IF Exists(To(p, i)) THEN To(p, i) ELSE Null
  <2> DEFINE q == To(p, i - 1)
  <2>1. Chain(p)[i - 1] = q /\ Exists(q) /\ i - 1 \in Nat /\ (i - 1) + 1 = i
    BY SMT, <1>2
  <2>2. q # Null
    BY <2>1, NullIsNone DEF Shape
  <2>3. Chain(p)[i] = Reg(q).r_next
    <3>1. Chain(p)[i] = IF Chain(p)[i - 1] = Null THEN Null ELSE Reg(Chain(p)[i - 1]).r_next
      BY ChainLinks
    <3> HIDE DEF q
    <3> QED  BY Zenon, <2>1, <2>2, <3>1
  <2>4. To(q, 1) = To(p, i)
    <3>1. p.addr \in Nat
      BY Zenon, Pointed
    <3>2. To(To(p, i - 1), 1) = To(p, (i - 1) + 1)
      BY Zenon, <2>1, <3>1, ToTo
    <3> QED  BY Zenon, <2>1, <3>2
  <2> HIDE DEF q
  <2> QED  BY Zenon, <2>1, <2>3, <2>4, NextLink
<1> QED  BY <1>1, <1>2

\* It is sound for n words where there are n registers in a row.
LEMMA SoundRow ==
  ASSUME Shape, NoTwins, Made, NEW p, Exists(p), p = To(p, 0), NEW n \in {0, 1, 2, 4}
  PROVE  /\ Sound(p, n) <=> \A i \in 0 .. n - 1 : Exists(To(p, i))
         /\ Sound(p, n) => \A i \in 0 .. n - 1 : Chain(p)[i] = To(p, i)
<1> DEFINE c == Chain(p)
           E(i) == Exists(To(p, i))
<1>0. ~Exists(Null)
  BY NullIsNone DEF Shape
<1>1. c[0] = To(p, 0) /\ E(0)
  BY ChainRuns
<1>2. /\ c[1] = IF E(1) THEN To(p, 1) ELSE Null
      /\ E(1) => c[2] = IF E(2) THEN To(p, 2) ELSE Null
      /\ E(1) /\ E(2) => c[3] = IF E(3) THEN To(p, 3) ELSE Null
  <2> HIDE DEF c, E
  <2>1. \A i \in {1, 2, 3} : (\A j \in 0 .. i - 1 : c[j] = To(p, j) /\ E(j)) =>
                               c[i] = IF E(i) THEN To(p, i) ELSE Null
    BY ChainRuns DEF c, E
  <2>2. c[1] = IF E(1) THEN To(p, 1) ELSE Null
    <3>1. \A j \in 0 .. 1 - 1 : c[j] = To(p, j) /\ E(j)
      BY SMT, <1>1
    <3> QED  BY <2>1, <3>1
  <2>3. ASSUME E(1) PROVE c[2] = IF E(2) THEN To(p, 2) ELSE Null
    <3>1. \A j \in 0 .. 2 - 1 : j = 0 \/ j = 1
      BY SMT
    <3> QED  BY <1>1, <2>1, <2>2, <2>3, <3>1
  <2>4. ASSUME E(1), E(2) PROVE c[3] = IF E(3) THEN To(p, 3) ELSE Null
    <3>1. \A j \in 0 .. 3 - 1 : j = 0 \/ j = 1 \/ j = 2
      BY SMT
    <3> QED  BY <1>1, <2>1, <2>2, <2>3, <2>4, <3>1
  <2> QED  BY <2>2, <2>3, <2>4
<1>3. Sound(p, n) <=> \A i \in 0 .. n - 1 : Exists(c[i])
  BY DEF Sound
<1> HIDE DEF c, E
<1>4. /\ Exists(c[0])
      /\ Exists(c[1]) <=> E(1)
      /\ E(1) => (Exists(c[2]) <=> E(2))
      /\ E(1) /\ E(2) => (Exists(c[3]) <=> E(3))
  BY Zenon, <1>0, <1>1, <1>2 DEF E
<1>5. /\ n = 0 => 0 .. n - 1 = {}
      /\ n = 1 => 0 .. n - 1 = {0}
      /\ n = 2 => 0 .. n - 1 = {0, 1}
      /\ n = 4 => 0 .. n - 1 = {0, 1, 2, 3}
  BY SMT
<1>6. /\ Sound(p, n) <=> \A i \in 0 .. n - 1 : E(i)
      /\ Sound(p, n) => \A i \in 0 .. n - 1 : c[i] = To(p, i)
  <2>1. CASE n = 0
    BY <1>3, <1>5, <2>1
  <2>2. CASE n = 1
    BY <1>1, <1>3, <1>4, <1>5, <2>2
  <2>3. CASE n = 2
    BY <1>1, <1>2, <1>3, <1>4, <1>5, <2>3
  <2>4. CASE n = 4
    BY <1>1, <1>2, <1>3, <1>4, <1>5, <2>4
  <2> QED  BY <2>1, <2>2, <2>3, <2>4
<1> QED  BY Zenon, <1>6 DEF c, E

-----------------------------------------------------------------------------
(* The steps.                                                              *)

\* Where the tasks leave the main thread.
LEMMA RunPlaces ==
  ASSUME Poller \/ Refresher \/ Start \/ Stop
  PROVE  /\ file' = file /\ at' = at /\ nth' = nth
         /\ \/ pc' = pc
            \/ pc = "ready" /\ pc' = "run"
            \/ pc = "run" /\ pc' = "stopped"
BY Zenon DEF Start, Stop, Poller, PollAnswered, PollFails, CopyReg, CopyEnds, WriteReg,
   WriteEnds, Refresher, ReadBegins, WriteBegins, ReadWord, ReadEnds, WriteWord, WriteDone,
   TakeOpc, loaded, config

\* The tasks leave all this as it is.
LEMMA VecKept ==
  ASSUME SameVec(PLCvec, PLCvec'), buffer' = buffer, file' = file
  PROVE  /\ \A p : Exists(p) => /\ p.buf = buffer' /\ p.plc \in DOMAIN PLCvec'
                                /\ p.addr \in DOMAIN PLCvec'[p.plc].regs
                                /\ PLCvec'[p.plc].name = PLCvec[p.plc].name
         /\ Made => Made'
<1>1. /\ DOMAIN PLCvec' = DOMAIN PLCvec
      /\ \A k \in DOMAIN PLCvec :
           /\ PLCvec'[k].name = PLCvec[k].name /\ PLCvec'[k].folder = PLCvec[k].folder
           /\ PLCvec'[k].lock = PLCvec[k].lock
           /\ DOMAIN PLCvec'[k].regs = DOMAIN PLCvec[k].regs
           /\ \A a \in DOMAIN PLCvec[k].regs : SameReg(PLCvec[k].regs[a], PLCvec'[k].regs[a])
  BY Zenon DEF SameVec, SameTable
<1>2. \A p : Exists(p) => /\ p.buf = buffer' /\ p.plc \in DOMAIN PLCvec'
                          /\ p.addr \in DOMAIN PLCvec'[p.plc].regs
                          /\ PLCvec'[p.plc].name = PLCvec[p.plc].name
  BY Zenon, <1>1 DEF Exists
<1>3. ASSUME NEW k \in DOMAIN PLCvec, NEW c, ObjectOf(k, c)
      PROVE  ObjectOf(k, c)'
  <2>1. \A r \in SetOf(c.regs) : r.addr \in AddressesOf(c)
    BY DEF AddressesOf
  <2>2. \A r \in SetOf(c.regs) : SameReg(PLCvec[k].regs[r.addr], PLCvec'[k].regs[r.addr])
    BY Zenon, <1>1, <1>3, <2>1 DEF ObjectOf
  <2>3. ASSUME NEW r \in SetOf(c.regs)
        PROVE  LET q == PLCvec'[k].regs[r.addr] IN
               /\ q.name = r.name /\ q.folder = r.folder /\ q.rmode = r.rw
               /\ q.r_next = IF r.addr + 1 \in AddressesOf(c)
                             THEN [buf |-> buffer, plc |-> k, addr |-> r.addr + 1] ELSE Null
    BY Zenon, <1>3, <2>2 DEF ObjectOf, SameReg
  <2>4. /\ PLCvec'[k].name = c.name /\ PLCvec'[k].folder = c.folder
        /\ PLCvec'[k].lock = "live" /\ DOMAIN PLCvec'[k].regs = AddressesOf(c)
    BY Zenon, <1>1, <1>3 DEF ObjectOf
  <2> QED  BY Zenon, <2>3, <2>4 DEF ObjectOf
<1>4. Wanted' = Wanted
  BY SameFile
<1>5. Made => Made'
  BY Zenon, <1>1, <1>3, <1>4 DEF Made
<1> QED  BY <1>2, <1>5

LEMMA MadeKept ==
  ASSUME Shape, UNCHANGED <<file, PLCvec, buffer>>, Made
  PROVE  Made'
<1>1. SameVec(PLCvec, PLCvec)
  BY SameSelf DEF Shape, Vector
<1>2. SameVec(PLCvec, PLCvec')
  BY <1>1
<1> QED  BY <1>2, VecKept

LEMMA EntriesKept ==
  ASSUME SameVec(PLCvec, PLCvec'), buffer' = buffer, file' = file,
         SameEntries(REGmap, REGmap'), Led, Origins
  PROVE  Led' /\ Origins'
<1>1. \A p : Exists(p) => /\ p.buf = buffer' /\ p.plc \in DOMAIN PLCvec'
                          /\ p.addr \in DOMAIN PLCvec'[p.plc].regs
                          /\ PLCvec'[p.plc].name = PLCvec[p.plc].name
  BY VecKept
<1>2. /\ DOMAIN REGmap' = DOMAIN REGmap
      /\ \A n \in DOMAIN REGmap : /\ REGmap'[n].ptr = REGmap[n].ptr
                                  /\ REGmap'[n].prop = REGmap[n].prop
                                  /\ REGmap'[n].kind = REGmap[n].kind
  BY Zenon DEF SameEntries, SameEntry
<1>3. ASSUME NEW n \in DOMAIN REGmap PROVE EntryRuns(REGmap[n])'
  <2>1. EntryRuns(REGmap[n])
    BY DEF Led
  <2> DEFINE E(q) == /\ q.buf = buffer' /\ q.plc \in DOMAIN PLCvec'
                     /\ q.addr \in DOMAIN PLCvec'[q.plc].regs
             f == REGmap'[n]
             p == f.ptr[0]
  <2>2. \A q : Exists(q) => E(q)
    BY <1>1
  <2>3. f.ptr = REGmap[n].ptr /\ f.prop = REGmap[n].prop
    BY <1>2
  <2> HIDE DEF E, f
  <2>4. \/ \A i \in Place : f.ptr[i] = Null
        \/ /\ E(p)
           /\ \A i \in Place : IF i < f.prop.rsize THEN f.ptr[i] = To(p, i) /\ E(To(p, i))
                                                   ELSE f.ptr[i] = Null
    BY Zenon, <2>1, <2>2, <2>3 DEF EntryRuns
  <2> QED  BY Zenon, <2>4 DEF EntryRuns, Exists, E, f, To
<1>4. ASSUME NEW n \in DOMAIN REGmap \cap PlcNames PROVE EntryOfReg(n, REGmap[n])'
  <2>1. EntryOfReg(n, REGmap[n])
    BY DEF Origins
  <2>2. RegOf(n)' = RegOf(n)
    BY Zenon, SameFile
  <2> QED  BY Zenon, <1>1, <1>2, <2>1, <2>2 DEF EntryOfReg, Exists
<1>5. PlcNames' = PlcNames
  BY Zenon, SameFile
<1> QED  BY Zenon, <1>2, <1>3, <1>4, <1>5 DEF Led, Origins

\* One more PLC.
LEMMA AddPlcSane ==
  ASSUME Shape, Shape', NoTwins, Made, Room, AddPlc
  PROVE  Made' /\ Room'
<1>0. PICK c, k : c = file.plc[at] /\ k = Len(PLCvec) + 1
  OBVIOUS
<1>1. /\ Len(PLCvec) < capacity
      /\ \A j \in DOMAIN PLCvec : PLCvec[j].name # c.name
  BY Zenon, <1>0, NotFull
<1>2. /\ Len(PLCvec) \in Nat /\ DOMAIN PLCvec = 1 .. Len(PLCvec) /\ at \in Nat
      /\ capacity \in Nat /\ IsSeq(PLCvec)
      /\ DOMAIN file.plc = 1 .. Len(file.plc) /\ Len(file.plc) \in Nat
  BY SeqParts, FileParts DEF Shape, Scalars, Vector
<1>3. ~(Len(PLCvec) >= capacity)
  BY SMT, <1>1, <1>2
<1>4. /\ pc = "plc" /\ at <= Len(file.plc) /\ c.complete /\ Listed(c)
      /\ at' = at + 1 /\ UNCHANGED <<file, pc, nth, REGmap, opcvars>>
  BY Zenon, <1>0 DEF AddPlc
<1>5. buffer' = buffer /\ capacity' = capacity
  BY Zenon, <1>3 DEF AddPlc
<1>6. PICK V : V = [j \in DOMAIN PLCvec |-> PLCvec[j]]
  OBVIOUS
<1>7. V = [j \in DOMAIN PLCvec |-> V[j]] /\ \A j \in DOMAIN PLCvec : V[j] = PLCvec[j]
  BY SMT, <1>6
<1>8. IsSeq(V) /\ Len(V) = Len(PLCvec) /\ DOMAIN V = DOMAIN PLCvec
  BY <1>2, <1>7, Remade
<1>9. PICK here, D : /\ here = [buf |-> buffer', plc |-> k, addr |-> 0]
                     /\ D = PlcObject(c, here)
  OBVIOUS
<1>10. PLCvec' = Append(V, D)
  BY Zenon, <1>0, <1>3, <1>6, <1>9 DEF AddPlc
<1>11. /\ DOMAIN PLCvec' = 1 .. k
       /\ \A j \in DOMAIN PLCvec : PLCvec'[j] = PLCvec[j]
       /\ PLCvec'[k] = D
  <2>1. LET T == Append(V, D)
        IN /\ DOMAIN T = 1 .. Len(V) + 1
           /\ \A i \in 1 .. Len(V) : T[i] = V[i]
           /\ T[Len(V) + 1] = D
    BY <1>8, Appended
  <2> QED  BY Zenon, <1>0, <1>2, <1>7, <1>8, <1>10, <2>1
<1>12. at \in DOMAIN file.plc /\ Len(PLCvec) < at
  <2>1. Len(PLCvec) < at
    BY <1>4 DEF Room
  <2> QED  BY SMT, <1>2, <1>4, <2>1
<1>13. c \in Wanted
  BY Zenon, <1>0, <1>4, <1>12 DEF Wanted, Listed, SetOf
<1>14. Wanted' = Wanted /\ NoTwins'
  BY Zenon, <1>4, SameFile
<1>15. ObjectOf(k, c)'
  <2>1. /\ D.name = c.name /\ D.folder = c.folder /\ D.lock = "live"
        /\ DOMAIN D.regs = AddressesOf(c)
        /\ \A r \in SetOf(c.regs) :
             LET q == D.regs[r.addr] IN
             /\ q.name = r.name /\ q.folder = r.folder /\ q.rmode = r.rw
             /\ q.r_next = IF r.addr + 1 \in AddressesOf(c)
                           THEN [buf |-> buffer', plc |-> k, addr |-> r.addr + 1] ELSE Null
    <3>1. Scalars /\ NoTwins
      BY DEF Shape
    <3> QED  BY <1>9, <1>13, <3>1, ObjectMade
  <2>2. /\ PLCvec'[k].name = c.name /\ PLCvec'[k].folder = c.folder
        /\ PLCvec'[k].lock = "live" /\ DOMAIN PLCvec'[k].regs = AddressesOf(c)
        /\ \A r \in SetOf(c.regs) :
             LET q == PLCvec'[k].regs[r.addr] IN
             /\ q.name = r.name /\ q.folder = r.folder /\ q.rmode = r.rw
             /\ q.r_next = IF r.addr + 1 \in AddressesOf(c)
                           THEN [buf |-> buffer', plc |-> k, addr |-> r.addr + 1] ELSE Null
    BY Zenon, <1>11, <2>1
  <2> QED  BY Zenon, <2>2 DEF ObjectOf
<1>16. ASSUME NEW j \in DOMAIN PLCvec, NEW d, ObjectOf(j, d) PROVE ObjectOf(j, d)'
  BY Zenon, <1>5, <1>11, <1>16 DEF ObjectOf
<1>17. \A j \in 1 .. k : j = k \/ j \in DOMAIN PLCvec
  BY SMT, <1>0, <1>2
<1>18. Made'
  <2>1. \A j \in DOMAIN PLCvec' : \E d \in Wanted' : ObjectOf(j, d)'
    BY Zenon, <1>11, <1>13, <1>14, <1>15, <1>16, <1>17 DEF Made
  <2>2. ASSUME NEW i \in DOMAIN PLCvec', NEW j \in DOMAIN PLCvec',
               PLCvec'[i].name = PLCvec'[j].name
        PROVE  i = j
    <3>1. PLCvec'[k].name = c.name
      BY Zenon, <1>15 DEF ObjectOf
    <3>2. \A m \in DOMAIN PLCvec : PLCvec'[m].name # PLCvec'[k].name
      BY <1>1, <1>11, <3>1
    <3>3. CASE i \in DOMAIN PLCvec /\ j \in DOMAIN PLCvec
      BY Zenon, <1>11, <2>2, <3>3 DEF Made
    <3> QED  BY <1>11, <1>17, <2>2, <3>2, <3>3
  <2> QED  BY Zenon, <2>1, <2>2 DEF Made
<1>19. Room'
  <2>1. PLCvec'[k].name = c.name /\ k \in DOMAIN PLCvec'
    <3>1. k \in 1 .. k
      BY SMT, <1>0, <1>2
    <3> QED  BY Zenon, <1>11, <1>15, <3>1 DEF ObjectOf
  <2>2. \A i \in DOMAIN file.plc : (i < at => i < at + 1) /\ (i < at + 1 => i < at \/ i = at)
        /\ at < at + 1
    BY SMT, <1>2
  <2>3. \A j \in DOMAIN PLCvec' :
          \E i \in DOMAIN file.plc : i < at + 1 /\ file.plc[i].name = PLCvec'[j].name
    <3> SUFFICES ASSUME NEW j \in DOMAIN PLCvec'
                 PROVE  \E i \in DOMAIN file.plc : i < at + 1 /\ file.plc[i].name = PLCvec'[j].name
      OBVIOUS
    <3>1. CASE j = k
      BY <1>0, <1>12, <2>1, <2>2, <3>1
    <3>2. CASE j \in DOMAIN PLCvec
      <4>1. PICK i \in DOMAIN file.plc : i < at /\ file.plc[i].name = PLCvec[j].name
        BY <1>4, <3>2 DEF Room
      <4> QED  BY <1>11, <2>2, <3>2, <4>1
    <3> QED  BY <1>11, <1>17, <3>1, <3>2
  <2>4. ASSUME NEW i \in DOMAIN file.plc, i < at + 1, file.plc[i] \in Wanted
        PROVE  \E j \in DOMAIN PLCvec' : PLCvec'[j].name = file.plc[i].name
    <3>1. CASE i = at
      BY <1>0, <2>1, <3>1
    <3>2. CASE i < at
      <4>1. PICK j \in DOMAIN PLCvec : PLCvec[j].name = file.plc[i].name
        BY <1>4, <2>4, <3>2 DEF Room
      <4>2. j \in DOMAIN PLCvec'
        BY SMT, <1>0, <1>2, <1>11
      <4> QED  BY <1>11, <4>1, <4>2
    <3> QED  BY <2>2, <2>4, <3>1, <3>2
  <2>5. Len(PLCvec') < at + 1
    <3>1. Len(PLCvec') = Len(PLCvec) + 1
      <4>1. Len(Append(V, D)) = Len(V) + 1
        BY Zenon, <1>8, Appended
      <4> QED  BY <1>8, <1>10, <4>1
    <3> QED  BY SMT, <1>2, <1>12, <3>1
  <2>6. capacity >= (IF file.all THEN Len(file.plc) ELSE Len(file.list))
    BY <1>4 DEF Room
  <2> QED  BY Zenon, <1>4, <1>5, <1>14, <2>3, <2>4, <2>5, <2>6 DEF Room
<1> QED  BY <1>18, <1>19

\* The type of the entries for registers.
LEMMA U16 == regprop_map["u16"] = Row({"u", "u16"}, "UINT16", 1, "SNGL")
<1> DEFINE u == Row({"u", "u16"}, "UINT16", 1, "SNGL")
<1>1. u \in Rows
  BY Zenon DEF Rows
<1>2. "u16" \in u.names
  BY SMT DEF Row
<1>3. ASSUME NEW r \in Rows, "u16" \in r.names PROVE r = u
  BY SMT, <1>3 DEF Rows, Wide, Row
<1>4. "u16" \in TypeNames
  BY <1>1, <1>2 DEF TypeNames
<1>5. u = CHOOSE r \in Rows : "u16" \in r.names
  <2> HIDE DEF u
  <2> QED  BY <1>1, <1>2, <1>3
<1> QED  BY <1>4, <1>5 DEF regprop_map

LEMMA ModbusParts ==
  ASSUME NEW p
  PROVE  LET e == ModbusEntry(p) IN
         /\ e.kind = "modbus" /\ e.rw = Reg(p).rmode /\ e.prop.rsize = 1
         /\ e.ptr[0] = p /\ \A i \in Place : i # 0 => e.ptr[i] = Null
<1>1. regprop_map["u16"].rsize = 1
  BY SMT, U16 DEF Row
<1>2. PICK a, x, y : /\ a = [i \in Place |-> IF i = 0 THEN p ELSE Null]
                     /\ x = ModbusEntry(p).Number /\ y = ModbusEntry(p).path
  OBVIOUS
<1>3. a[0] = p /\ \A i \in Place : i # 0 => a[i] = Null
  BY SMT, <1>2 DEF Place
<1>4. /\ ModbusEntry(p).kind = "modbus" /\ ModbusEntry(p).rw = Reg(p).rmode
      /\ ModbusEntry(p).prop = regprop_map["u16"] /\ ModbusEntry(p).ptr = a
  BY SMT, <1>2 DEF ModbusEntry
<1> QED  BY Zenon, <1>1, <1>3, <1>4

\* The register whose entry has the name n: in a file without twins the only one.
LastNamed(n) == CHOOSE p \in Registers :
                  /\ NameOf(p) = n
                  /\ \A q \in Registers : NameOf(q) = n => ~Later(q, p)

LEMMA RegistersNamed ==
  ASSUME Shape, NoTwins, Made
  PROVE  /\ \A p \in Registers :
              /\ Exists(p) /\ p = To(p, 0) /\ p.plc \in Nat /\ p.addr \in Nat
              /\ NameOf(p) \in PlcNames
              /\ RegOf(NameOf(p)) = [plc |-> PLCvec[p.plc].name, addr |-> p.addr]
         /\ \A n \in {NameOf(p) : p \in Registers} :
              LastNamed(n) \in Registers /\ NameOf(LastNamed(n)) = n
<1>1. ASSUME NEW p \in Registers
      PROVE  /\ Exists(p) /\ p = To(p, 0) /\ p.plc \in Nat /\ p.addr \in Nat
             /\ NameOf(p) \in PlcNames
             /\ RegOf(NameOf(p)) = [plc |-> PLCvec[p.plc].name, addr |-> p.addr]
  <2>1. PICK k \in DOMAIN PLCvec :
               p \in {[buf |-> buffer, plc |-> k, addr |-> a] : a \in DOMAIN PLCvec[k].regs}
    BY Zenon DEF Registers
  <2>2. PICK a \in DOMAIN PLCvec[k].regs : p = [buf |-> buffer, plc |-> k, addr |-> a]
    BY <2>1
  <2>3. p.buf = buffer /\ p.plc = k /\ p.addr = a
    BY SMT, <2>2
  <2>4. Exists(p)
    BY Zenon, <2>3 DEF Exists
  <2>5. p.addr \in Nat
    BY <2>4, Pointed
  <2>6. PICK c \in Wanted : \E r \in SetOf(c.regs) :
               /\ ObjectOf(p.plc, c) /\ r.addr = p.addr
               /\ PLCvec[p.plc].name = c.name /\ Reg(p).name = r.name
    BY <2>4, Pointed
  <2>7. PICK r \in SetOf(c.regs) :
               /\ ObjectOf(p.plc, c) /\ r.addr = p.addr
               /\ PLCvec[p.plc].name = c.name /\ Reg(p).name = r.name
    BY <2>6
  <2>8. NameOf(p) = FullName(c.name, r.name)
    BY <2>7 DEF NameOf
  <2>9. /\ NameOf(p) \in PlcNames
        /\ RegOf(NameOf(p)) = [plc |-> PLCvec[p.plc].name, addr |-> p.addr]
    BY Zenon, <2>7, <2>8, RegOfName
  <2>10. p = To(p, 0)
    BY SMT, <2>2, <2>5 DEF To
  <2>11. p.plc \in Nat
    BY SMT, <2>3, SeqParts DEF Shape, Vector
  <2> QED  BY <2>4, <2>5, <2>9, <2>10, <2>11
<1>2. ASSUME NEW p \in Registers, NEW q \in Registers, NameOf(p) = NameOf(q)
      PROVE  p = q
  <2>1. [plc |-> PLCvec[p.plc].name, addr |-> p.addr]
          = [plc |-> PLCvec[q.plc].name, addr |-> q.addr]
    BY Zenon, <1>1, <1>2
  <2>2. PLCvec[p.plc].name = PLCvec[q.plc].name /\ p.addr = q.addr
    BY SMT, <2>1
  <2>3. p.plc = q.plc
    BY <1>1, <2>2 DEF Made, Exists
  <2>4. p.buf = q.buf
    BY <1>1 DEF Exists
  <2> QED  BY Zenon, <1>1, <2>2, <2>3, <2>4 DEF To
<1>3. ASSUME NEW n \in {NameOf(p) : p \in Registers}
      PROVE  LastNamed(n) \in Registers /\ NameOf(LastNamed(n)) = n
  <2>1. PICK p \in Registers : NameOf(p) = n
    OBVIOUS
  <2>2. ~Later(p, p)
    BY SMT, <1>1 DEF Later
  <2>3. \A q \in Registers : NameOf(q) = n => ~Later(q, p)
    BY Zenon, <1>2, <2>1, <2>2
  <2> QED  BY Zenon, <2>1, <2>3 DEF LastNamed
<1> QED  BY <1>1, <1>3

\* The entries of registers.
LEMMA CreateEntriesSane ==
  ASSUME Shape, NoTwins, Made, Room, CreateEntries
  PROVE  HasAll' /\ Led' /\ Origins'
<1> DEFINE N == {NameOf(p) : p \in Registers}
<1>1. /\ pc = "plc" /\ at > Len(file.plc) /\ pc' \in {"failed", "scada"}
      /\ UNCHANGED <<file, PLCvec, capacity, buffer>>
      /\ REGmap' = [n \in N |-> ModbusEntry(LastNamed(n))]
  BY Zenon DEF CreateEntries, LastNamed
<1>2. /\ Wanted' = Wanted /\ PlcNames' = PlcNames /\ \A n : RegOf(n)' = RegOf(n)
  BY Zenon, <1>1, SameFile
<1>3. HasAll'
  <2>1. ASSUME NEW c \in Wanted PROVE \E k \in DOMAIN PLCvec : PLCvec[k].name = c.name
    <3>1. PICK i \in DOMAIN file.plc : c = file.plc[i]
      BY DEF Wanted, SetOf
    <3>2. i < at
      BY SMT, <1>1, FileParts DEF Shape, Scalars
    <3> QED  BY <1>1, <3>1, <3>2 DEF Room
  <2> QED  BY Zenon, <1>1, <1>2, <2>1 DEF HasAll
<1>4. ASSUME NEW n \in N
      PROVE  /\ EntryRuns(REGmap[n])'
             /\ n \in PlcNames /\ EntryOfReg(n, REGmap[n])'
  <2>1. PICK p : p = LastNamed(n)
    OBVIOUS
  <2>2. p \in Registers /\ NameOf(p) = n
    BY <2>1, RegistersNamed
  <2>3. PICK e : e = REGmap'[n]
    OBVIOUS
  <2>4. e = ModbusEntry(p)
    BY Zenon, <1>1, <2>1, <2>3
  <2>5. /\ e.kind = "modbus" /\ e.prop.rsize = 1
        /\ e.ptr[0] = p /\ \A i \in Place : i # 0 => e.ptr[i] = Null
    BY Zenon, <2>4, ModbusParts
  <2>6. \A i \in Place : i < 1 <=> i = 0
    BY SMT DEF Place
  <2>7. /\ Exists(p) /\ p = To(p, 0)
        /\ n \in PlcNames /\ RegOf(n) = [plc |-> PLCvec[p.plc].name, addr |-> p.addr]
    BY Zenon, <2>2, RegistersNamed
  <2>8. EntryRuns(e) /\ EntryOfReg(n, e)
    BY Zenon, <2>5, <2>6, <2>7 DEF EntryRuns, EntryOfReg
  <2>9. EntryRuns(REGmap[n])'
    BY Zenon, <1>1, <2>3, <2>8 DEF EntryRuns, Exists
  <2>10. EntryOfReg(n, REGmap[n])'
    BY Zenon, <1>1, <1>2, <2>3, <2>8 DEF EntryOfReg, Exists
  <2> QED  BY <2>7, <2>9, <2>10
<1>5. DOMAIN REGmap' = N
  BY Zenon, <1>1
<1> QED  BY Zenon, <1>2, <1>3, <1>4, <1>5 DEF Led, Origins

LEMMA ScadaParts ==
  ASSUME NEW c, NEW v
  PROVE  LET e == ScadaEntry(c, v) IN
         /\ e.kind = (IF IsLocal(v) THEN "scada" ELSE "ref") /\ e.rw = v.rw
         /\ e.prop = TypeOf(v)
         /\ \A i \in Place : e.ptr[i] = IF SourcePtr(v) # Null /\ i < TypeOf(v).rsize
                                        THEN Chain(SourcePtr(v))[i] ELSE Null
<1>1. PICK a, x, y, k, t :
        /\ a = [i \in Place |-> IF SourcePtr(v) # Null /\ i < TypeOf(v).rsize
                                THEN Chain(SourcePtr(v))[i] ELSE Null]
        /\ x = ScadaEntry(c, v).Number /\ y = ScadaEntry(c, v).path
        /\ k = (IF IsLocal(v) THEN "scada" ELSE "ref") /\ t = TypeOf(v)
  OBVIOUS
<1>2. \A i \in Place : a[i] = IF SourcePtr(v) # Null /\ i < TypeOf(v).rsize
                              THEN Chain(SourcePtr(v))[i] ELSE Null
  BY <1>1
<1>3. /\ ScadaEntry(c, v).kind = k /\ ScadaEntry(c, v).rw = v.rw
      /\ ScadaEntry(c, v).prop = t /\ ScadaEntry(c, v).ptr = a
  BY SMT, <1>1 DEF ScadaEntry
<1>4. \A i \in Place : ScadaEntry(c, v).ptr[i] =
                         IF SourcePtr(v) # Null /\ i < TypeOf(v).rsize
                         THEN Chain(SourcePtr(v))[i] ELSE Null
  BY <1>2, <1>3
<1>5. ScadaEntry(c, v).kind = IF IsLocal(v) THEN "scada" ELSE "ref"
  BY <1>1, <1>3
<1> QED  BY <1>1, <1>3, <1>4, <1>5

\* The first pointer of an entry.
LEMMA FirstPointer ==
  ASSUME NEW e, EntryRuns(e), e.ptr[0] # Null
  PROVE  Exists(e.ptr[0]) /\ e.ptr[0] = To(e.ptr[0], 0)
<1>1. 0 \in Place
  BY SMT DEF Place
<1> QED  BY Zenon, <1>1 DEF EntryRuns

\* One more variable, or the crash.
LEMMA AddVarSane ==
  ASSUME Shape, NoTwins, Made, Led, Origins, AddVar
  PROVE  Led' /\ Origins' /\ (pc' = "crashed" => Gap')
<1>0. PICK c, v, p, n : /\ c = file.scada[at] /\ v = Here /\ p = SourcePtr(v)
                        /\ n = FullName(SetName(c), v.name)
  OBVIOUS
<1>1. /\ pc = "scada" /\ at <= Len(file.scada) /\ c.complete
      /\ IsLocal(v) \/ v.source \in DOMAIN REGmap
      /\ check_type(v.type)
      /\ UNCHANGED <<file, at, PLCvec, capacity, buffer>>
      /\ IF p # Null /\ ~Sound(p, TypeOf(v).rsize)
         THEN pc' = "crashed" /\ UNCHANGED <<nth, REGmap>>
         ELSE /\ REGmap' = [m \in DOMAIN REGmap \cup {n} |->
                              IF m = n THEN ScadaEntry(c, v) ELSE REGmap[m]]
              /\ pc' = pc
  BY Zenon, <1>0 DEF AddVar, InSet, Refused
<1>2. Wanted' = Wanted /\ PlcNames' = PlcNames /\ \A m : RegOf(m)' = RegOf(m)
  BY Zenon, <1>1, SameFile
<1>3. TypeOf(v).rsize \in {0, 1, 2, 4}
  BY <1>1, Sizes DEF TypeOf
<1>4. p # Null => /\ ~IsLocal(v) /\ v.source \in DOMAIN REGmap /\ p = REGmap[v.source].ptr[0]
                  /\ EntryRuns(REGmap[v.source])
  BY Zenon, <1>0, <1>1 DEF SourcePtr, Led
<1>5. p # Null => Exists(p) /\ p = To(p, 0)
  BY <1>4, FirstPointer
<1>6. CASE p # Null /\ ~Sound(p, TypeOf(v).rsize)
  <2>1. pc' = "crashed" /\ UNCHANGED <<file, at, nth, PLCvec, capacity, buffer, REGmap>>
    BY <1>1, <1>6
  <2>2. Led' /\ Origins'
    BY Zenon, <1>2, <2>1 DEF Led, Origins, EntryRuns, EntryOfReg, Exists
  <2>3. PICK i \in 0 .. TypeOf(v).rsize - 1 : ~Exists(To(p, i))
    BY <1>3, <1>5, <1>6, SoundRow
  <2>4. i \in 1 .. TypeOf(v).rsize - 1 /\ i \in Nat
    <3>1. i # 0
      BY <1>5, <1>6, <2>3
    <3> QED  BY SMT, <1>3, <3>1
  <2>5. PICK d \in Wanted : /\ ObjectOf(p.plc, d) /\ PLCvec[p.plc].name = d.name
                            /\ p.addr \in Nat
    BY Zenon, <1>5, <1>6, Pointed
  <2>6. p.addr + i \notin AddressesOf(d)
    <3>1. To(p, i).buf = p.buf /\ To(p, i).plc = p.plc /\ To(p, i).addr = p.addr + i
      BY SMT DEF To
    <3>2. DOMAIN PLCvec[p.plc].regs = AddressesOf(d)
      BY <2>5 DEF ObjectOf
    <3> QED  BY Zenon, <1>5, <1>6, <2>3, <3>1, <3>2 DEF Exists
  <2>7. v.source \in PlcNames => RegOf(v.source) = [plc |-> d.name, addr |-> p.addr]
    BY Zenon, <1>4, <1>6, <2>5 DEF Origins, EntryOfReg
  <2>8. Gap
    BY Zenon, <1>0, <1>4, <1>5, <1>6, <2>4, <2>5, <2>6, <2>7 DEF Gap
  <2>9. Here' = Here
    BY <2>1 DEF Here
  <2>10. SourcePtr(Here)' = SourcePtr(Here)
    BY Zenon, <2>1, <2>9 DEF SourcePtr, IsLocal
  <2>11. Gap'
    BY Zenon, <1>2, <2>1, <2>8, <2>9, <2>10 DEF Gap, Exists, TypeOf, IsLocal, AddressesOf
  <2> QED  BY <2>2, <2>11
<1>7. CASE ~(p # Null /\ ~Sound(p, TypeOf(v).rsize))
  <2>1. /\ REGmap' = [m \in DOMAIN REGmap \cup {n} |->
                        IF m = n THEN ScadaEntry(c, v) ELSE REGmap[m]]
        /\ pc' = pc
    BY <1>1, <1>7
  <2>2. n \notin PlcNames
    <3>1. c \in Sets
      <4>1. at \in DOMAIN file.scada
        BY SMT, <1>1, FileParts DEF Shape, Scalars
      <4> QED  BY Zenon, <1>0, <1>1, <4>1 DEF Sets, SetOf
    <3>2. n[1] = SetName(c)
      BY <1>0 DEF FullName
    <3>3. ASSUME n \in PlcNames PROVE FALSE
      <4>1. PICK d \in Wanted : \E r \in SetOf(d.regs) : n = FullName(d.name, r.name)
        BY <3>3 DEF PlcNames
      <4>2. n[1] = d.name
        BY <4>1 DEF FullName
      <4> QED  BY <3>1, <3>2, <4>1, <4>2, OwnNames
    <3> QED  BY <3>3
  <2>3. EntryRuns(ScadaEntry(c, v))
    <3>1. PICK e : e = ScadaEntry(c, v)
      OBVIOUS
    <3>2. /\ e.prop = TypeOf(v)
          /\ \A i \in Place : e.ptr[i] = IF p # Null /\ i < TypeOf(v).rsize
                                         THEN Chain(p)[i] ELSE Null
      BY Zenon, <1>0, <3>1, ScadaParts
    <3>3. CASE p = Null
      BY Zenon, <3>1, <3>2, <3>3 DEF EntryRuns
    <3>4. CASE p # Null
      <4>1. /\ \A i \in 0 .. TypeOf(v).rsize - 1 : Exists(To(p, i)) /\ Chain(p)[i] = To(p, i)
        BY <1>3, <1>5, <1>7, <3>4, SoundRow
      <4>2. \A i \in Place : i < TypeOf(v).rsize => i \in 0 .. TypeOf(v).rsize - 1
        BY SMT, <1>3 DEF Place
      <4>3. \A i \in Place : IF i < e.prop.rsize
                             THEN e.ptr[i] = To(p, i) /\ Exists(To(p, i)) ELSE e.ptr[i] = Null
        BY Zenon, <3>2, <3>4, <4>1, <4>2
      <4>4. CASE 0 < e.prop.rsize
        <5>1. e.ptr[0] = p
          <6>1. 0 \in Place
            BY SMT DEF Place
          <6> QED  BY <1>5, <3>4, <4>3, <4>4, <6>1
        <5> QED  BY Zenon, <1>5, <3>1, <3>4, <4>3, <5>1 DEF EntryRuns
      <4>5. CASE ~(0 < e.prop.rsize)
        <5>1. \A i \in Place : ~(i < e.prop.rsize)
          BY SMT, <1>3, <3>2, <4>5 DEF Place
        <5> QED  BY Zenon, <3>1, <4>3, <5>1 DEF EntryRuns
      <4> QED  BY <4>4, <4>5
    <3> QED  BY <3>3, <3>4
  <2>4. /\ DOMAIN REGmap' = DOMAIN REGmap \cup {n}
        /\ REGmap'[n] = ScadaEntry(c, v)
        /\ \A m \in DOMAIN REGmap : m # n => REGmap'[m] = REGmap[m]
    BY Zenon, <2>1
  <2>5. \A m \in DOMAIN REGmap' : EntryRuns(REGmap[m])'
    <3>1. ASSUME NEW m \in DOMAIN REGmap', NEW e, e = REGmap'[m]
          PROVE  EntryRuns(e)
      BY Zenon, <2>3, <2>4, <3>1 DEF Led
    <3> QED  BY Zenon, <1>1, <3>1 DEF EntryRuns, Exists
  <2>6. \A m \in DOMAIN REGmap' \cap PlcNames' : EntryOfReg(m, REGmap[m])'
    <3> SUFFICES ASSUME NEW m \in DOMAIN REGmap' \cap PlcNames' PROVE EntryOfReg(m, REGmap[m])'
      OBVIOUS
    <3>1. m \in DOMAIN REGmap \cap PlcNames /\ REGmap'[m] = REGmap[m]
      BY <1>2, <2>2, <2>4
    <3>2. EntryOfReg(m, REGmap[m])
      BY <3>1 DEF Origins
    <3> QED  BY Zenon, <1>1, <1>2, <3>1, <3>2 DEF EntryOfReg, Exists
  <2>7. Led' /\ Origins'
    BY <2>5, <2>6 DEF Led, Origins
  <2>8. pc' # "crashed"
    BY SMT, <1>1, <2>1
  <2> QED  BY <2>7, <2>8
<1> QED  BY <1>6, <1>7

LEMMA SaneInit == RunInit => Sane
<1> SUFFICES ASSUME RunInit PROVE Sane
  OBVIOUS
<1>1. pc = "out" /\ PLCvec = <<>> /\ REGmap = Empty
  BY DEF RunInit, Init
<1>2. DOMAIN PLCvec = {} /\ DOMAIN REGmap = {}
  BY SMT, <1>1, EmptyIsSeq DEF Empty
<1>3. Made /\ Led /\ Origins
  BY Zenon, <1>2 DEF Made, Led, Origins
<1>4. Room /\ HasAll /\ pc # "crashed"
  BY SMT, <1>1 DEF Room, HasAll
<1> QED  BY <1>3, <1>4 DEF Sane

\* Nothing is loaded.
LEMMA BareSane ==
  ASSUME DOMAIN PLCvec' = {}, DOMAIN REGmap' = {}, pc' \in {"out", "failed"}
  PROVE  Sane'
<1>1. Made' /\ Led' /\ Origins'
  BY Zenon DEF Made, Led, Origins
<1>2. Room' /\ HasAll' /\ pc' # "crashed"
  BY SMT DEF Room, HasAll
<1> QED  BY <1>1, <1>2 DEF Sane

\* Nothing of this changes but where loading is.
LEMMA StillSane ==
  ASSUME Shape, Sane, UNCHANGED <<file, PLCvec, capacity, buffer>>, pc' # "crashed",
         \/ REGmap' = REGmap
         \/ DOMAIN REGmap' = {},
         pc' # "plc",
         pc' = "failed" \/ pc \in {"scada", "opc", "ready", "run", "stopped", "noregs", "noopc"}
  PROVE  Sane'
<1>1. NoTwins' = NoTwins /\ Wanted' = Wanted /\ PlcNames' = PlcNames
      /\ \A m : RegOf(m)' = RegOf(m)
  BY Zenon, SameFile
<1> SUFFICES ASSUME NoTwins PROVE Sane'
  BY Zenon, <1>1 DEF Sane
<1>2. Made /\ HasAll /\ Led /\ Origins
  BY DEF Sane
<1>3. Made'
  BY <1>2, MadeKept
<1>4. Led' /\ Origins'
  <2>1. CASE REGmap' = REGmap
    BY Zenon, <1>1, <1>2, <2>1 DEF Led, Origins, EntryRuns, EntryOfReg, Exists
  <2>2. CASE DOMAIN REGmap' = {}
    BY Zenon, <2>2 DEF Led, Origins
  <2> QED  BY <2>1, <2>2
<1>5. HasAll'
  <2>1. CASE pc' = "failed"
    BY SMT, <2>1 DEF HasAll
  <2>2. CASE pc \in {"scada", "opc", "ready", "run", "stopped", "noregs", "noopc"}
    <3>1. \A c \in Wanted : \E k \in DOMAIN PLCvec : PLCvec[k].name = c.name
      BY SMT, <1>2, <2>2 DEF HasAll
    <3> QED  BY Zenon, <1>1, <3>1 DEF HasAll
  <2> QED  BY <2>1, <2>2
<1>6. Room'
  BY DEF Room
<1> QED  BY <1>3, <1>4, <1>5, <1>6 DEF Sane

LEMMA ConfigSane ==
  ASSUME Shape, Shape', Sane, ConfigStep
  PROVE  Sane'
<1>1. ASSUME NEW f \in File, ReadFile(f) PROVE Sane'
  <2>1. pc = "out" /\ UNCHANGED <<PLCvec, buffer, REGmap>> /\ file' = f /\ at' = 1
    BY Zenon, <1>1 DEF ReadFile
  <2>2. PLCvec = <<>> /\ DOMAIN REGmap = {}
    BY SMT, <2>1 DEF Shape, Phases
  <2>3. DOMAIN PLCvec' = {} /\ DOMAIN REGmap' = {} /\ Len(PLCvec) = 0
    BY <2>1, <2>2, EmptyIsSeq
  <2>4. CASE f.fault = "early"
    BY Zenon, <1>1, <2>3, <2>4, BareSane DEF ReadFile
  <2>5. CASE f.fault # "early"
    <3>1. pc' = "plc" /\ Reserve(IF f.all THEN Len(f.plc) ELSE Len(f.list))
      BY Zenon, <1>1, <2>5 DEF ReadFile
    <3>2. Made' /\ Led' /\ Origins'
      BY Zenon, <2>3 DEF Made, Led, Origins
    <3>3. HasAll' /\ pc' # "crashed"
      BY SMT, <3>1 DEF HasAll
    <3>4. capacity' >= (IF f.all THEN Len(f.plc) ELSE Len(f.list))
      <4>1. PICK n \in Nat : n = (IF f.all THEN Len(f.plc) ELSE Len(f.list)) /\ Reserve(n)
        BY Zenon, <3>1, FileParts
      <4>2. capacity' >= n
        BY SMT, <2>3, <4>1 DEF Reserve, Shape, Scalars
      <4> QED  BY <4>1, <4>2
    <3>5. \A i \in DOMAIN f.plc : ~(i < 1)
      BY SMT, FileParts
    <3>6. Len(PLCvec') < at'
      BY SMT, <2>1, <2>3
    <3>7. Room'
      BY Zenon, <2>1, <2>3, <3>4, <3>5, <3>6 DEF Room
    <3> QED  BY <3>2, <3>3, <3>7 DEF Sane
  <2> QED  BY <2>4, <2>5
<1>2. CASE SkipPlc
  <2>1. /\ pc = "plc" /\ at <= Len(file.plc) /\ at' = at + 1
        /\ LET c == file.plc[at] IN ~c.complete \/ ~Listed(c)
        /\ UNCHANGED <<file, pc, nth, PLCvec, capacity, buffer, REGmap, opcvars>>
    BY Zenon, <1>2 DEF SkipPlc
  <2>2. NoTwins' = NoTwins /\ Wanted' = Wanted /\ PlcNames' = PlcNames
        /\ \A m : RegOf(m)' = RegOf(m)
    BY Zenon, <2>1, SameFile
  <2> SUFFICES ASSUME NoTwins PROVE Sane'
    BY Zenon, <2>2 DEF Sane
  <2>3. Made /\ Room /\ Led /\ Origins
    BY DEF Sane
  <2>4. Made' /\ Led' /\ Origins'
    <3>1. Made'
      BY <2>1, <2>3, MadeKept
    <3>2. DOMAIN REGmap' = {}
      BY SMT, <2>1 DEF Shape, Phases
    <3>3. Led' /\ Origins'
      BY Zenon, <3>2 DEF Led, Origins
    <3> QED  BY <3>1, <3>3
  <2>5. HasAll' /\ pc' # "crashed"
    BY SMT, <2>1 DEF HasAll
  <2>6. file.plc[at] \notin Wanted
    BY <2>1 DEF Wanted, Listed
  <2>7. /\ \A i \in DOMAIN file.plc : /\ i < at => i < at + 1
                                      /\ i < at + 1 => i < at \/ i = at
        /\ Len(PLCvec) < at => Len(PLCvec) < at + 1
    BY SMT, SeqParts, FileParts DEF Shape, Scalars, Vector
  <2>8. Room'
    BY Zenon, <2>1, <2>2, <2>3, <2>6, <2>7 DEF Room
  <2> QED  BY <2>4, <2>5, <2>8 DEF Sane
<1>3. CASE AddPlc
  <2>1. /\ pc = "plc" /\ UNCHANGED <<file, pc, nth, REGmap, opcvars>>
    BY Zenon, <1>3 DEF AddPlc
  <2>2. NoTwins' = NoTwins
    BY Zenon, <2>1, SameFile
  <2> SUFFICES ASSUME NoTwins PROVE Sane'
    BY Zenon, <2>2 DEF Sane
  <2>3. Made' /\ Room'
    BY <1>3, AddPlcSane DEF Sane
  <2>4. DOMAIN REGmap' = {}
    BY SMT, <2>1 DEF Shape, Phases
  <2>5. Led' /\ Origins'
    BY Zenon, <2>4 DEF Led, Origins
  <2>6. HasAll' /\ pc' # "crashed"
    BY SMT, <2>1 DEF HasAll
  <2> QED  BY <2>3, <2>5, <2>6 DEF Sane
<1>4. CASE CreateEntries
  <2>1. UNCHANGED <<file, PLCvec, capacity, buffer>> /\ pc' \in {"failed", "scada"}
    BY SMT, <1>4 DEF CreateEntries
  <2>2. NoTwins' = NoTwins /\ Wanted' = Wanted
    BY Zenon, <2>1, SameFile
  <2> SUFFICES ASSUME NoTwins PROVE Sane'
    BY Zenon, <2>2 DEF Sane
  <2>3. HasAll' /\ Led' /\ Origins'
    BY <1>4, CreateEntriesSane DEF Sane
  <2>4. Made'
    BY <2>1, MadeKept DEF Sane
  <2>5. Room' /\ pc' # "crashed"
    BY SMT, <2>1 DEF Room
  <2> QED  BY <2>3, <2>4, <2>5 DEF Sane
<1>5. CASE NextSet \/ SkipVar \/ ScadaDone \/ OpcRegsInit \/ OpcDeinit
  <2>1. /\ UNCHANGED <<file, PLCvec, capacity, buffer>> /\ REGmap' = REGmap
        /\ pc' # "crashed" /\ pc' # "plc"
        /\ pc \in {"scada", "opc", "ready", "run", "stopped", "noregs", "noopc"}
    BY SMT, <1>5 DEF NextSet, SkipVar, InSet, ScadaDone, OpcRegsInit, OpcDeinit
  <2> QED  BY <2>1, StillSane
<1>6. CASE AddVar
  <2>1. UNCHANGED <<file, PLCvec, capacity, buffer>> /\ pc = "scada"
        /\ pc' \in {"scada", "crashed"}
    BY SMT, <1>6 DEF AddVar, InSet
  <2>2. NoTwins' = NoTwins /\ Wanted' = Wanted
    BY Zenon, <2>1, SameFile
  <2> SUFFICES ASSUME NoTwins PROVE Sane'
    BY Zenon, <2>2 DEF Sane
  <2>3. Led' /\ Origins' /\ (pc' = "crashed" => Gap')
    BY <1>6, AddVarSane DEF Sane
  <2>4. Made'
    BY <2>1, MadeKept DEF Sane
  <2>5. Room'
    BY SMT, <2>1 DEF Room
  <2>6. HasAll'
    <3>1. \A c \in Wanted : \E k \in DOMAIN PLCvec : PLCvec[k].name = c.name
      BY <2>1 DEF Sane, HasAll
    <3> QED  BY Zenon, <2>1, <2>2, <3>1 DEF HasAll
  <2> QED  BY <2>3, <2>4, <2>5, <2>6 DEF Sane
<1>7. CASE RegsDeinit
  <2>1. /\ UNCHANGED <<file, PLCvec, capacity, buffer>> /\ DOMAIN REGmap' = {}
        /\ pc' # "crashed" /\ pc' # "plc" /\ pc = "stopped"
    BY SMT, <1>7 DEF RegsDeinit, Empty
  <2> QED  BY <2>1, StillSane
<1>8. CASE MbDeinit
  <2>1. PLCvec' = <<>> /\ REGmap' = REGmap /\ pc = "noopc" /\ pc' = "out"
    BY Zenon, <1>8 DEF MbDeinit
  <2>2. DOMAIN PLCvec' = {} /\ DOMAIN REGmap' = {}
    BY SMT, <2>1, EmptyIsSeq DEF Shape, Phases
  <2> QED  BY <2>1, <2>2, BareSane
<1> QED
  BY Zenon, <1>1, <1>2, <1>3, <1>4, <1>5, <1>6, <1>7, <1>8 DEF ConfigStep

LEMMA SaneStep ==
  ASSUME Shape, Shape', Sane, [Next]_vars
  PROVE  Sane'
<1>1. CASE ConfigStep
  BY <1>1, ConfigSane
<1>2. CASE Poller \/ Refresher \/ Start \/ Stop \/ UNCHANGED vars
  <2>0. UNCHANGED vars => SameVec(PLCvec, PLCvec') /\ SameEntries(REGmap, REGmap')
    <3>1. SameVec(PLCvec, PLCvec) /\ SameEntries(REGmap, REGmap)
      BY Zenon, SameSelf DEF Shape, Vector, SameEntries, SameEntry
    <3> QED  BY Zenon, <3>1 DEF vars, config
  <2>1. SameVec(PLCvec, PLCvec') /\ buffer' = buffer /\ capacity' = capacity
    BY Zenon, <1>2, <2>0, RunKeepsVec DEF Shape, Vector, vars, config
  <2>2. SameEntries(REGmap, REGmap')
    BY Zenon, <1>2, <2>0, RunKeepsEntries
  <2>3. /\ file' = file /\ at' = at /\ nth' = nth
        /\ \/ pc' = pc
           \/ pc = "ready" /\ pc' = "run"
           \/ pc = "run" /\ pc' = "stopped"
    BY Zenon, <1>2, RunPlaces DEF vars, config
  <2>4. /\ NoTwins' = NoTwins /\ Wanted' = Wanted /\ PlcNames' = PlcNames
        /\ \A m : RegOf(m)' = RegOf(m)
    BY Zenon, <2>3, SameFile
  <2> SUFFICES ASSUME NoTwins PROVE Sane'
    BY Zenon, <2>4 DEF Sane
  <2>5. Made /\ Room /\ HasAll /\ Led /\ Origins /\ (pc = "crashed" => Gap)
    BY DEF Sane
  <2>6. Made' /\ Led' /\ Origins'
    BY <2>1, <2>2, <2>3, <2>5, VecKept, EntriesKept
  <2>7. /\ DOMAIN PLCvec' = DOMAIN PLCvec /\ Len(PLCvec') = Len(PLCvec)
        /\ \A k \in DOMAIN PLCvec : PLCvec'[k].name = PLCvec[k].name
    BY Zenon, <2>1 DEF SameVec
  <2>8. HasAll'
    <3>1. pc' \in {"scada", "opc", "ready", "run", "stopped", "noregs", "noopc", "crashed"} =>
            pc \in {"scada", "opc", "ready", "run", "stopped", "noregs", "noopc", "crashed"}
      BY SMT, <2>3
    <3> QED  BY Zenon, <2>4, <2>5, <2>7, <3>1 DEF HasAll
  <2>9. Room'
    <3>1. pc' = "plc" => pc = "plc"
      BY SMT, <2>3
    <3> SUFFICES ASSUME pc = "plc" PROVE Room'
      BY <3>1 DEF Room
    <3>2. /\ capacity >= (IF file.all THEN Len(file.plc) ELSE Len(file.list))
          /\ Len(PLCvec) < at
          /\ \A k \in DOMAIN PLCvec :
               \E i \in DOMAIN file.plc : i < at /\ file.plc[i].name = PLCvec[k].name
          /\ \A i \in DOMAIN file.plc : i < at /\ file.plc[i] \in Wanted =>
               \E k \in DOMAIN PLCvec : PLCvec[k].name = file.plc[i].name
      BY <2>5 DEF Room
    <3>3. \A k \in DOMAIN PLCvec' :
            \E i \in DOMAIN file.plc : i < at /\ file.plc[i].name = PLCvec'[k].name
      BY <2>7, <3>2
    <3>4. \A i \in DOMAIN file.plc : i < at /\ file.plc[i] \in Wanted =>
            \E k \in DOMAIN PLCvec' : PLCvec'[k].name = file.plc[i].name
      BY <2>7, <3>2
    <3> QED  BY Zenon, <2>1, <2>3, <2>4, <2>7, <3>2, <3>3, <3>4 DEF Room
  <2>10. ASSUME pc' = "crashed" PROVE Gap'
    <3>1. Gap
      BY SMT, <2>3, <2>5, <2>10
    <3>2. Here' = Here
      BY <2>3 DEF Here
    <3>3. DOMAIN REGmap' = DOMAIN REGmap
          /\ \A n \in DOMAIN REGmap : REGmap'[n].ptr = REGmap[n].ptr
      BY Zenon, <2>2 DEF SameEntries, SameEntry
    <3>4. PICK p : p = SourcePtr(Here)
      OBVIOUS
    <3>5. SourcePtr(Here)' = p
      BY Zenon, <3>1, <3>2, <3>3, <3>4 DEF Gap, SourcePtr, IsLocal
    <3>6. /\ Exists(p) /\ ~IsLocal(Here) /\ Here.source \in DOMAIN REGmap
          /\ \E c \in Wanted : \E i \in 1 .. TypeOf(Here).rsize - 1 :
               /\ c.name = PLCvec[p.plc].name
               /\ p.addr + i \notin AddressesOf(c)
               /\ Here.source \in PlcNames =>
                    RegOf(Here.source) = [plc |-> c.name, addr |-> p.addr]
      BY Zenon, <3>1, <3>4 DEF Gap
    <3>7. Exists(p)' /\ PLCvec'[p.plc].name = PLCvec[p.plc].name
      BY Zenon, <2>1, <2>3, <3>6, VecKept DEF Exists
    <3>8. TypeOf(Here)' = TypeOf(Here) /\ IsLocal(Here)' = IsLocal(Here)
      BY Zenon, <3>2 DEF TypeOf, IsLocal
    <3>9. RegOf(Here.source)' = RegOf(Here.source)
      BY Zenon, <2>3, <3>2 DEF RegOf, Wanted
    <3> QED  BY Zenon, <2>4, <3>2, <3>3, <3>5, <3>6, <3>7, <3>8, <3>9 DEF Gap, AddressesOf
  <2> QED  BY <2>6, <2>8, <2>9, <2>10 DEF Sane
<1> QED  BY <1>1, <1>2 DEF Next

IInv == Shape /\ Sane

LEMMA Invariant == Spec => []IInv
<1>1. RunInit => IInv
  BY ShapeInit, SaneInit DEF IInv
<1>2. IInv /\ [Next]_vars => IInv'
  BY ShapeStep, SaneStep DEF IInv
<1> QED  BY <1>1, <1>2, PTL DEF Spec

\* Where every record has a name of its own, no pointer to a register ever
\* leads into a buffer that the vector of PLCs has left, nor behind PLCs that
\* are gone, and no PLC has lost its mutex: what cfg_init_plcset reserves is
\* enough, however many files have been loaded and taken down before.
THEOREM PointersLead == Spec => []NothingDangles
<1>1. ASSUME IInv, NoTwins
      PROVE  /\ \A k \in DOMAIN PLCvec :
                  /\ PLCvec[k].lock = "live"
                  /\ \A r \in SetOf(PLCvec[k].regs) : r.r_next = Null \/ Exists(r.r_next)
             /\ \A n \in DOMAIN REGmap : \A i \in Place :
                  LET p == REGmap[n].ptr[i] IN p = Null \/ Exists(p)
  <2>1. Shape /\ Made /\ Led
    BY <1>1 DEF IInv, Sane
  <2>2. ASSUME NEW k \in DOMAIN PLCvec
        PROVE  /\ PLCvec[k].lock = "live"
               /\ \A r \in SetOf(PLCvec[k].regs) : r.r_next = Null \/ Exists(r.r_next)
    <3>1. PLCvec[k].lock = "live"
      BY Zenon, <2>1 DEF Made, ObjectOf
    <3>2. ASSUME NEW r \in SetOf(PLCvec[k].regs)
          PROVE  r.r_next = Null \/ Exists(r.r_next)
      <4>1. PICK a \in DOMAIN PLCvec[k].regs : r = PLCvec[k].regs[a]
        BY DEF SetOf
      <4>2. PICK p : p = [buf |-> buffer, plc |-> k, addr |-> a]
        OBVIOUS
      <4>3. p.buf = buffer /\ p.plc = k /\ p.addr = a
        BY SMT, <4>2
      <4>4. Exists(p) /\ Reg(p) = r
        BY Zenon, <4>1, <4>3 DEF Exists, Reg
      <4> QED  BY Zenon, <1>1, <2>1, <4>4, NextLink
    <3> QED  BY <3>1, <3>2
  <2>3. ASSUME NEW n \in DOMAIN REGmap, NEW i \in Place
        PROVE  REGmap[n].ptr[i] = Null \/ Exists(REGmap[n].ptr[i])
    BY Zenon, <2>1 DEF Led, EntryRuns
  <2> QED  BY <2>2, <2>3
<1>2. IInv => NothingDangles
  BY Zenon, <1>1 DEF NothingDangles
<1> QED  BY <1>2, Invariant, PTL

\* Loading a file without twins stops at a null pointer (the constructor of
\* Reg_c for references) only at a variable whose type takes more words than
\* the file has registers in a row from its source.
THEOREM CrashIsAGap == Spec => []GapsOnlyCrash
<1>1. ASSUME IInv, pc = "crashed", NoTwins
      PROVE  Gap
  BY <1>1 DEF IInv, Sane
<1>2. Gap => LET p == SourcePtr(Here) IN
             \E c \in Wanted : \E i \in 1 .. TypeOf(Here).rsize - 1 :
               /\ c.name = PLCvec[p.plc].name
               /\ p.addr + i \notin {q.addr : q \in SetOf(c.regs)}
               /\ Here.source \in PlcNames =>
                    RegOf(Here.source) = [plc |-> c.name, addr |-> p.addr]
  BY Zenon DEF Gap, AddressesOf
<1>3. IInv => GapsOnlyCrash
  BY Zenon, <1>1, <1>2 DEF GapsOnlyCrash
<1> QED  BY <1>3, Invariant, PTL

-----------------------------------------------------------------------------
(* The entries of a file, what the server has for them, and the page.      *)

\* Every entry is published under its own name, and its number is of its type.
Keyed ==
  \A n \in DOMAIN REGmap :
    LET e == REGmap[n] IN
    /\ n = FullName(n[1], n[2])
    /\ e.path = [folders |-> e.path.folders, name |-> n] /\ IsSeq(e.path.folders)
    /\ Known(e.prop.rtype) => e.Number.ua = type_attr[e.prop.rtype].ua

\* Once the registers have entries these stay; of the variables of the file no
\* reference that has been passed is missing, and there is nothing else.
Passed(i, j) == i < at \/ (i = at /\ j < nth) \/ pc # "scada"
SureOf(v) == v.source \in PlcNames /\ check_type(v.type)

Listing ==
  /\ DOMAIN REGmap \subseteq PlcNames \cup {RefName(x) : x \in Taken}
  /\ pc \in {"scada", "opc", "ready", "run"} =>
       /\ PlcNames \subseteq DOMAIN REGmap
       /\ \A i \in DOMAIN file.scada :
            LET c == file.scada[i] IN
            \A j \in DOMAIN c.vars :
              c.complete /\ Passed(i, j) /\ SureOf(c.vars[j]) =>
                FullName(SetName(c), c.vars[j].name) \in DOMAIN REGmap

\* What the server has for entry n.
Shows(n) == REGmap[n].prop.rtype \in Published /\ n[2] # "status"
Announced(n) ==
  LET e == REGmap[n] IN
  /\ GetVarFullName(n) = e.path
  /\ opcvars[e.path] = type_attr[e.prop.rtype].ua
  /\ e.path.folders # <<>> => opcvars[Parent(e.path)] = "folder"

Serving == pc \in {"ready", "run"} =>
             \A n \in DOMAIN REGmap : Shows(n) => Announced(n)

\* What the page has for the entries shown since they were loaded.
OnPage(n) ==
  LET e == REGmap[n]
  IN e.path \in DOMAIN JSON_reg /\ JSON_reg[e.path] = JsonNumber(e.Number)

Paging == \A n \in shown \cap DOMAIN REGmap : Shows(n) => OnPage(n)

\* The server has variables, the page is shown and the task works only at times.
Timely ==
  /\ pc \in {"out", "plc", "scada", "opc", "noopc"} => DOMAIN opcvars = {}
  /\ shown # {} => pc = "run"
  /\ task.op # "idle" => pc = "run" /\ task.n \in DOMAIN REGmap

Taking == Timely /\ (NoTwins => Keyed /\ Listing /\ Serving /\ Paging)

\* A number takes the type it is given, or that of the number it is set to,
\* and keeps it when it gets a word.
LEMMA SetTypeUa ==
  ASSUME NEW x, NEW g, Known(g)
  PROVE  SetType(x, g).ua = type_attr[g].ua /\ Known(SetType(x, g).ua)
<1>1. SetType(x, g).ua = type_attr[g].ua
  BY SMT DEF SetType
<1> QED  BY Zenon, <1>1, Widths

LEMMA SetNumberUa ==
  ASSUME NEW x, NEW y, Fitting(y), Known(y.ua)
  PROVE  SetNumber(x, y).ua = y.ua
<1>1. PICK m, low : m = type_attr[y.ua].words /\ low = Low(y.value, type_attr[y.ua].words, Blank)
  OBVIOUS
<1>2. PICK z : z = [y EXCEPT !.words = m]
  OBVIOUS
<1>3. PICK u, n, b, v : y = [ua |-> u, words |-> n, isgood |-> b, value |-> v]
  BY DEF Fitting
<1>4. z.ua = y.ua /\ [z EXCEPT !.value = low].ua = y.ua
  BY SMT, <1>2, <1>3
<1>5. SetNumber(x, y) = [z EXCEPT !.value = low]
  BY Zenon, <1>1, <1>2 DEF SetNumber
<1> QED  BY <1>4, <1>5

LEMMA AssignUa ==
  ASSUME NEW y, NEW w, Fitting(y), Known(y.ua)
  PROVE  Assign(y, w).ua = y.ua
<1>1. y.words # 0 /\ y.ua # "none"
  BY SMT, Widths DEF Fitting
<1>2. PICK v : SetValue(y, w) = [y EXCEPT !.value = v]
  BY Zenon DEF SetValue
<1> QED  BY Zenon, <1>1, <1>2, FittingValue DEF Assign

LEMMA PublishedKnown ==
  /\ \A g \in Published : Known(g)
  /\ Known("UINT16") /\ type_attr["UINT16"].ua = "UINT16"
<1>1. DOMAIN Fits = {"INT16", "UINT16", "INT32", "UINT32", "FLOAT", "F10", "F100",
                     "INT64", "UINT64", "DOUBLE"}
  BY SMT DEF Fits
<1>2. DOMAIN type_attr = DOMAIN Fits
  BY SMT DEF type_attr
<1>3. type_attr["UINT16"].ua = "UINT16"
  BY SMT, <1>1 DEF type_attr
<1> QED  BY SMT, <1>1, <1>2, <1>3 DEF Published, Known

LEMMA PathParts ==
  ASSUME NEW a, NEW b, NEW c, NEW n, NEW P, P = Path(a, b, c, n)
  PROVE  P = [folders |-> P.folders, name |-> n] /\ IsSeq(P.folders)
<1>1. PICK S : S = {a, b, c}
  OBVIOUS
<1>2. a \in S /\ b \in S /\ c \in S
  BY <1>1
<1>3. ASSUME NEW s \in S PROVE Part(s) \in Seq(S)
  <2>1. <<>> \in Seq(S) /\ <<s>> \in Seq(S)
    BY SMT
  <2> QED  BY Zenon, <2>1 DEF Part
<1>4. PICK A, B, C : A = Part(a) /\ B = Part(b) /\ C = Part(c)
  OBVIOUS
<1>5. A \in Seq(S) /\ B \in Seq(S) /\ C \in Seq(S)
  BY <1>2, <1>3, <1>4
<1>6. PICK F : F = A \o B \o C
  OBVIOUS
<1>7. F \in Seq(S)
  BY SMT, <1>5, <1>6
<1>8. IsSeq(F)
  BY SMT, <1>7 DEF IsSeq, SetOf
<1>9. P = [folders |-> F, name |-> n]
  BY Zenon, <1>4, <1>6 DEF Path
<1>10. P.folders = F
  BY SMT, <1>9
<1> QED  BY <1>8, <1>9, <1>10

LEMMA NameParts ==
  ASSUME NEW a, NEW b, NEW n, n = FullName(a, b)
  PROVE  n[1] = a /\ n[2] = b /\ n = FullName(n[1], n[2])
BY DEF FullName

\* The two kinds of entries.
LEMMA ModbusKeyed ==
  ASSUME NEW p, NEW e, e = ModbusEntry(p)
  PROVE  /\ e.path = [folders |-> e.path.folders, name |-> NameOf(p)]
         /\ IsSeq(e.path.folders)
         /\ NameOf(p) = FullName(NameOf(p)[1], NameOf(p)[2])
         /\ e.Number.ua = type_attr[e.prop.rtype].ua
<1>1. PICK P : P = Path(PLCvec[p.plc].folder, PLCvec[p.plc].name, Reg(p).folder, NameOf(p))
  OBVIOUS
<1>2. PICK x : x = SetType(NewNumber(Zero), "UINT16")
  OBVIOUS
<1>3. PICK v : v = [x.value EXCEPT ![0] = Reg(p).rvalue]
  OBVIOUS
<1>4. PICK y : y = [x EXCEPT !.value = v]
  OBVIOUS
<1>5. [x EXCEPT !.value[0] = Reg(p).rvalue] = y
  BY Zenon, <1>3, <1>4
<1>6. PICK z : z = SetNumber(NewNumber(Zero), y)
  OBVIOUS
<1>7. e.path = P /\ e.Number = z /\ e.prop = regprop_map["u16"]
  BY SMT, <1>1, <1>2, <1>5, <1>6 DEF ModbusEntry
<1>8. Fitting(NewNumber(Zero))
  BY SMT, Widths DEF Fitting, NewNumber
<1>9. Fitting(x) /\ x.ua = "UINT16"
  BY Zenon, <1>2, <1>8, NumbersFit, SetTypeUa, PublishedKnown
<1>10. Fitting(y) /\ y.ua = "UINT16"
  BY <1>4, <1>9, FittingValue
<1>11. z.ua = "UINT16"
  BY Zenon, <1>6, <1>10, SetNumberUa, PublishedKnown
<1>12. regprop_map["u16"].rtype = "UINT16"
  BY SMT, U16 DEF Row
<1>13. NameOf(p) = FullName(NameOf(p)[1], NameOf(p)[2])
  BY NameParts DEF NameOf
<1> QED  BY <1>1, <1>7, <1>11, <1>12, <1>13, PathParts, PublishedKnown

LEMMA ScadaKeyed ==
  ASSUME Numbers, NEW c, NEW v, NEW e, e = ScadaEntry(c, v),
         NEW n, n = FullName(SetName(c), v.name)
  PROVE  /\ e.path = [folders |-> e.path.folders, name |-> n]
         /\ IsSeq(e.path.folders)
         /\ n = FullName(n[1], n[2])
         /\ Known(e.prop.rtype) => e.Number.ua = type_attr[e.prop.rtype].ua
<1>1. PICK P : P = Path(c.folder, c.name, v.folder, n)
  OBVIOUS
<1>2. PICK old : old = IF n \in DOMAIN REGmap THEN REGmap[n].Number ELSE NewNumber(Zero)
  OBVIOUS
<1>3. PICK t, x, y, z : /\ t = TypeOf(v) /\ x = SetType(NewNumber(Zero), t.rtype)
                        /\ y = Assign(x, Local) /\ z = SetNumber(old, y)
  OBVIOUS
<1>4. e.path = P /\ e.Number = z /\ e.prop = t
  BY SMT, <1>1, <1>2, <1>3 DEF ScadaEntry
<1>5. Fitting(NewNumber(Zero))
  BY SMT, Widths DEF Fitting, NewNumber
<1>6. Fitting(x) /\ Fitting(y)
  BY Zenon, <1>3, <1>5, NumbersFit
<1>7. ASSUME Known(t.rtype) PROVE z.ua = type_attr[t.rtype].ua
  <2>1. x.ua = type_attr[t.rtype].ua /\ Known(x.ua)
    BY Zenon, <1>3, <1>7, SetTypeUa
  <2>2. y.ua = x.ua
    BY Zenon, <1>3, <1>6, <2>1, AssignUa
  <2>3. z.ua = y.ua
    BY Zenon, <1>3, <1>6, <2>1, <2>2, SetNumberUa
  <2> QED  BY <2>1, <2>2, <2>3
<1>8. n = FullName(n[1], n[2])
  BY NameParts
<1> QED  BY <1>1, <1>4, <1>7, <1>8, PathParts

-----------------------------------------------------------------------------
(* What the server is given.                                               *)

\* No name is that of a folder, and none that of a counter of errors.
LEMMA ThreeParts ==
  ASSUME NEW a, NEW b, NEW n, n = FullName(a, b)
  PROVE  /\ n # <<>>
         /\ n \o <<"error">> # <<>>
         /\ \A c, d : n \o <<"error">> # FullName(c, d)
<1>1. PICK S : S = {a, b, "error"}
  OBVIOUS
<1>2. PICK t : t = <<"error">>
  OBVIOUS
<1>3. n \in Seq(S) /\ Len(n) = 2 /\ t \in Seq(S) /\ Len(t) = 1
  BY SMT, <1>1, <1>2 DEF FullName
<1>4. Len(n \o t) = 3
  <2>1. Len(n \o t) = Len(n) + Len(t)
    BY <1>3, ConcatProperties
  <2> QED  BY SMT, <1>3, <2>1
<1>5. \A c, d : Len(FullName(c, d)) = 2
  BY SMT DEF FullName
<1>6. n # <<>>
  BY SMT, <1>3, EmptyIsSeq
<1>7. \A c, d : n \o t # FullName(c, d)
  BY SMT, <1>4, <1>5
<1>8. n \o t # <<>>
  BY SMT, <1>4, EmptyIsSeq
<1> QED  BY <1>2, <1>6, <1>7, <1>8

\* A status has the name of the milliseconds beside it, but for the last part.
LEMMA StatusName ==
  ASSUME NEW p, NEW f, NEW n, NEW a, NEW b,
         p = [folders |-> f, name |-> n], n = FullName(a, b)
  PROVE  /\ StatusPath(p).name[2] = "status"
         /\ StatusPath(p) = [folders |-> f, name |-> FullName(a, "status")]
<1>1. PICK m : m = [n EXCEPT ![2] = "status"]
  OBVIOUS
<1>2. m = FullName(a, "status") /\ m[2] = "status"
  BY SMT, <1>1 DEF FullName
<1>3. [p EXCEPT !.name = m] = [folders |-> f, name |-> m]
  BY SMT
<1>4. StatusPath(p) = [p EXCEPT !.name = m]
  <2>1. p.name = n
    BY SMT
  <2> QED  BY Zenon, <1>1, <2>1 DEF StatusPath
<1>5. [folders |-> f, name |-> m].name = m
  BY SMT
<1> QED  BY <1>2, <1>3, <1>4, <1>5

\* opc_regs_init, on a server without variables, for the entries that are shown.
LEMMA GivenAsShown ==
  ASSUME Keyed, DOMAIN opcvars = {}, NEW O, O = opc_regs_init,
         NEW n \in DOMAIN REGmap, Shows(n), NEW e, e = REGmap[n]
  PROVE  /\ e.path \in DOMAIN O /\ O[e.path] = type_attr[e.prop.rtype].ua
         /\ \A p \in DOMAIN O : p.name = n => p = e.path
         /\ e.path.folders # <<>> => O[Parent(e.path)] = "folder"
<1> DEFINE Entries  == {REGmap[m] : m \in DOMAIN REGmap}
           Status   == {StatusPath(x.path) : x \in {y \in Entries : IsMillis(y.path)}}
           Errors   == {ErrorsPath(x.path) : x \in Entries}
           Own      == {x.path : x \in {y \in Entries : y.prop.rtype \in Published}}
           Variable == Status \cup Errors \cup Own
           Folder   == UNION {FoldersOf(p) : p \in Variable}
           Kind(p)  == CASE p \in Folder -> "folder"
                         [] p \in Status -> "INT16"
                         [] p \in Errors -> "UINT16"
                         [] OTHER -> type_attr[(CHOOSE x \in Entries :
                                                  x.path = p).prop.rtype].ua
<1>1. O = Added(opcvars, [p \in Variable \cup Folder |-> Kind(p)])
  BY DEF opc_regs_init
<1>2. /\ \A x \in Entries : \E m \in DOMAIN REGmap : x = REGmap[m]
      /\ e \in Entries /\ e.prop.rtype \in Published
  BY DEF Shows
<1>3. /\ \A p \in Status : \E m \in DOMAIN REGmap : p = StatusPath(REGmap[m].path)
      /\ \A p \in Errors : \E m \in DOMAIN REGmap : p = ErrorsPath(REGmap[m].path)
      /\ \A p \in Own : \E m \in DOMAIN REGmap : p = REGmap[m].path
      /\ e.path \in Own
  BY Zenon, <1>2
<1>4. \A p \in Folder : \E seq : p = FolderPath(seq)
  BY Zenon DEF FoldersOf
<1>5. ASSUME NEW p \in Variable, NEW i \in DOMAIN p.folders
      PROVE  FolderPath(SubSeq(p.folders, 1, i)) \in Folder
  <2> HIDE DEF Variable
  <2>1. FolderPath(SubSeq(p.folders, 1, i)) \in FoldersOf(p)
    BY DEF FoldersOf
  <2> QED  BY <2>1
<1>6. ASSUME NEW p, p \notin Status, p \notin Errors
      PROVE  Kind(p) = IF p \in Folder THEN "folder"
                       ELSE type_attr[(CHOOSE x \in Entries : x.path = p).prop.rtype].ua
  <2> HIDE DEF Entries, Status, Errors, Folder
  <2>1. PICK t : t = type_attr[(CHOOSE x \in Entries : x.path = p).prop.rtype].ua
    OBVIOUS
  <2>2. CASE p \in Folder
    BY <1>6, <2>1, <2>2
  <2>3. CASE p \notin Folder
    BY <1>6, <2>1, <2>3
  <2> QED  BY <2>2, <2>3
<1>7. \A p : p \in Variable <=> p \in Status \/ p \in Errors \/ p \in Own
  OBVIOUS
<1> HIDE DEF Entries, Status, Errors, Own, Variable, Folder, Kind
<1>8. /\ DOMAIN O = Variable \cup Folder
      /\ \A p \in Variable \cup Folder : O[p] = Kind(p)
  <2>1. PICK g : g = [p \in Variable \cup Folder |-> Kind(p)]
    OBVIOUS
  <2>2. DOMAIN g = Variable \cup Folder /\ \A p \in Variable \cup Folder : g[p] = Kind(p)
    BY <2>1
  <2>3. O = [p \in DOMAIN opcvars \cup DOMAIN g |->
               IF p \in DOMAIN opcvars THEN opcvars[p] ELSE g[p]]
    BY Zenon, <1>1, <2>1 DEF Added
  <2> HIDE <1>1
  <2> QED  BY <2>2, <2>3
<1>9. \A m \in DOMAIN REGmap :
        LET x == REGmap[m] IN
        /\ x.path = [folders |-> x.path.folders, name |-> m] /\ IsSeq(x.path.folders)
        /\ m = FullName(m[1], m[2])
  BY Zenon DEF Keyed
<1>10. \A f, m : [folders |-> f, name |-> m].name = m
  BY SMT
<1>11. ASSUME NEW m \in DOMAIN REGmap PROVE REGmap[m].path.name = m
  <2>1. REGmap[m].path = [folders |-> REGmap[m].path.folders, name |-> m]
    BY <1>9
  <2> QED  BY Zenon, <1>10, <2>1
<1>12. ASSUME NEW p, p \in Folder \/ p \in Status \/ p \in Errors
       PROVE  /\ p.name # n
              /\ p \in Folder => p \notin Status /\ p \notin Errors
  <2>1. ASSUME p \in Folder PROVE p.name = <<>>
    BY <1>4, <1>10, <2>1 DEF FolderPath
  <2>2. ASSUME p \in Status PROVE \E a : p.name = FullName(a, "status")
    <3>1. PICK m \in DOMAIN REGmap : p = StatusPath(REGmap[m].path)
      BY <1>3, <2>2
    <3>2. PICK q, f, a, b : q = REGmap[m].path /\ f = q.folders /\ a = m[1] /\ b = m[2]
      OBVIOUS
    <3>3. q = [folders |-> f, name |-> m] /\ m = FullName(a, b)
      BY Zenon, <1>9, <3>2
    <3>4. StatusPath(q) = [folders |-> f, name |-> FullName(a, "status")]
      BY <3>3, StatusName
    <3>5. p = [folders |-> f, name |-> FullName(a, "status")]
      BY <3>1, <3>2, <3>4
    <3>6. p.name = FullName(a, "status")
      BY <1>10, <3>5
    <3> QED  BY <3>6
  <2>3. ASSUME p \in Errors
        PROVE  \E m \in DOMAIN REGmap : p.name = m \o <<"error">>
    <3>1. PICK m \in DOMAIN REGmap : p = ErrorsPath(REGmap[m].path)
      BY <1>3, <2>3
    <3> QED  BY Zenon, <1>10, <1>11, <3>1 DEF ErrorsPath
  <2>4. /\ n = FullName(n[1], n[2]) /\ n # <<>>
        /\ \A a, b : FullName(a, b) # <<>> /\ FullName(a, b)[2] = b
        /\ \A m \in DOMAIN REGmap : m \o <<"error">> # <<>>
                                   /\ \A a, b : m \o <<"error">> # FullName(a, b)
    <3>1. ASSUME NEW m \in DOMAIN REGmap
          PROVE  /\ m = FullName(m[1], m[2]) /\ m # <<>> /\ m \o <<"error">> # <<>>
                 /\ \A a, b : m \o <<"error">> # FullName(a, b)
      <4>1. m = FullName(m[1], m[2])
        BY <1>9
      <4>2. PICK a, b : m = FullName(a, b)
        BY <4>1
      <4> QED  BY <4>1, <4>2, ThreeParts
    <3>2. \A a, b : FullName(a, b)[2] = b
      BY DEF FullName
    <3>3. ASSUME NEW a, NEW b PROVE FullName(a, b) # <<>>
      BY ThreeParts
    <3> QED  BY <3>1, <3>2, <3>3
  <2>5. n[2] # "status"
    BY DEF Shows
  <2>6. p \in Folder => p.name # n /\ p \notin Status /\ p \notin Errors
    BY <2>1, <2>2, <2>3, <2>4
  <2>7. p \in Status => p.name # n
    BY <2>2, <2>4, <2>5
  <2>8. p \in Errors => p.name # n
    BY <2>3, <2>4
  <2> QED  BY <1>12, <2>6, <2>7, <2>8
<1>13. ASSUME NEW p \in DOMAIN O, p.name = n PROVE p = e.path
  <2>1. p \in Own
    BY <1>7, <1>8, <1>12, <1>13
  <2> QED  BY <1>3, <1>11, <1>13, <2>1
<1>14. e.path \in DOMAIN O /\ e.path.name = n
  BY <1>3, <1>7, <1>8, <1>11
<1>15. O[e.path] = type_attr[e.prop.rtype].ua
  <2>1. O[e.path] = Kind(e.path)
    BY <1>8, <1>14
  <2>2. e.path \notin Folder /\ e.path \notin Status /\ e.path \notin Errors
    BY <1>12, <1>14
  <2>3. \A x \in Entries : x.path = e.path => x = e
    BY <1>2, <1>11
  <2>4. e = CHOOSE x \in Entries : x.path = e.path
    BY <1>2, <2>3
  <2> QED  BY Zenon, <1>6, <2>1, <2>2, <2>4
<1>16. ASSUME e.path.folders # <<>> PROVE O[Parent(e.path)] = "folder"
  <2>1. PICK f : f = e.path.folders
    OBVIOUS
  <2>2. IsSeq(f) /\ f # <<>>
    BY Zenon, <1>9, <1>16, <2>1
  <2>3. Len(f) \in DOMAIN f
    BY SMT, <2>2, SeqParts, EmptySeq DEF IsSeq
  <2>4. SubSeq(f, 1, Len(f)) = f
    BY Zenon, <2>2, SubSeqFull DEF IsSeq
  <2>5. FolderPath(f) \in Folder
    BY Zenon, <1>3, <1>5, <1>7, <2>1, <2>3, <2>4
  <2>6. Parent(e.path) = FolderPath(f)
    BY <2>1 DEF Parent
  <2> QED  BY Zenon, <1>6, <1>8, <1>12, <2>5, <2>6
<1> QED  BY <1>13, <1>14, <1>15, <1>16

-----------------------------------------------------------------------------
(* A file is taken as it is written.                                       *)

LEMMA SameTaken ==
  ASSUME file' = file
  PROVE  /\ Sets' = Sets /\ Taken' = Taken /\ NoTwins' = NoTwins /\ PlcNames' = PlcNames
         /\ \A v : SureOf(v)' = SureOf(v)
<1>1. Sets' = Sets /\ Taken' = Taken
  BY DEF Sets, Taken, Given
<1> QED  BY Zenon, <1>1, SameFile DEF SureOf

\* What the sets of the file hold.
LEMMA VarParts ==
  ASSUME Scalars, NEW i \in DOMAIN file.scada, NEW c, c = file.scada[i],
         NEW j \in DOMAIN c.vars
  PROVE  /\ i \in Nat /\ j \in Nat /\ 1 <= i /\ 1 <= j /\ j <= Len(c.vars) /\ i <= Len(file.scada)
         /\ Len(c.vars) \in Nat
         /\ c.complete => c \in Sets /\ c.vars[j] \in SetOf(c.vars)
<1>1. file \in File
  BY DEF Scalars
<1>2. DOMAIN file.scada = 1 .. Len(file.scada) /\ Len(file.scada) \in Nat
  BY <1>1, FileParts
<1>3. IsSeq(c.vars)
  <2>1. c \in SetOf(file.scada)
    BY DEF SetOf
  <2> QED  BY Zenon, <1>1, <2>1, FilesAssumption
<1>4. DOMAIN c.vars = 1 .. Len(c.vars) /\ Len(c.vars) \in Nat
  BY <1>3, SeqParts
<1>5. c.complete => c \in Sets /\ c.vars[j] \in SetOf(c.vars)
  BY DEF Sets, SetOf
<1> QED  BY SMT, <1>2, <1>4, <1>5

\* The entries of registers are all the registers of the listed PLCs.
LEMMA CreateEntriesListed ==
  ASSUME Shape, NoTwins, Made, HasAll', CreateEntries
  PROVE  Keyed' /\ Listing'
<1> DEFINE N == {NameOf(p) : p \in Registers}
<1>1. /\ pc = "plc" /\ pc' \in {"failed", "scada"} /\ at' = 1 /\ nth' = 1
      /\ UNCHANGED <<file, PLCvec, buffer>>
      /\ REGmap' = [n \in N |-> ModbusEntry(LastNamed(n))]
  BY Zenon DEF CreateEntries, LastNamed
<1>2. Wanted' = Wanted /\ PlcNames' = PlcNames
  BY Zenon, <1>1, SameFile
<1>3. DOMAIN REGmap' = N /\ \A n \in N : REGmap'[n] = ModbusEntry(LastNamed(n))
  BY Zenon, <1>1
<1>4. Keyed'
  <2>1. ASSUME NEW n \in N, NEW e, e = REGmap'[n]
        PROVE  /\ n = FullName(n[1], n[2])
               /\ e.path = [folders |-> e.path.folders, name |-> n] /\ IsSeq(e.path.folders)
               /\ Known(e.prop.rtype) => e.Number.ua = type_attr[e.prop.rtype].ua
    <3>1. PICK p : p = LastNamed(n)
      OBVIOUS
    <3>2. NameOf(p) = n /\ e = ModbusEntry(p)
      BY Zenon, <1>3, <2>1, <3>1, RegistersNamed
    <3> QED  BY <3>2, ModbusKeyed
  <2> QED  BY Zenon, <1>3, <2>1 DEF Keyed
<1>5. N \subseteq PlcNames
  BY Zenon, RegistersNamed
<1>6. ASSUME pc' = "scada" PROVE PlcNames \subseteq N
  <2> SUFFICES ASSUME NEW n \in PlcNames PROVE n \in N
    OBVIOUS
  <2>0. PICK c \in Wanted : \E r \in SetOf(c.regs) : n = FullName(c.name, r.name)
    BY DEF PlcNames
  <2> PICK r \in SetOf(c.regs) : n = FullName(c.name, r.name)
    BY <2>0
  <2>1. PICK k \in DOMAIN PLCvec : PLCvec[k].name = c.name
    BY Zenon, <1>1, <1>2, <1>6 DEF HasAll
  <2>2. ObjectOf(k, c)
    <3>1. PICK d \in Wanted : ObjectOf(k, d)
      BY DEF Made
    <3>2. d.name = c.name
      BY <2>1, <3>1 DEF ObjectOf
    <3>3. d = c
      BY <3>2, OwnNames
    <3> QED  BY <3>1, <3>3
  <2>3. r.addr \in DOMAIN PLCvec[k].regs /\ PLCvec[k].regs[r.addr].name = r.name
    BY Zenon, <2>2 DEF ObjectOf, AddressesOf
  <2>4. PICK p : p = [buf |-> buffer, plc |-> k, addr |-> r.addr]
    OBVIOUS
  <2>5. p.plc = k /\ p.addr = r.addr
    BY SMT, <2>4
  <2>6. p \in Registers
    BY <2>3, <2>4 DEF Registers
  <2>7. NameOf(p) = FullName(c.name, r.name)
    BY Zenon, <2>1, <2>3, <2>5 DEF NameOf, Reg
  <2> QED  BY <2>6, <2>7
<1>7. ASSUME NEW i \in DOMAIN file.scada, NEW j \in DOMAIN file.scada[i].vars
      PROVE  ~(i < 1 \/ (i = 1 /\ j < 1))
  <2>1. i \in Nat /\ j \in Nat /\ 1 <= i /\ 1 <= j
    BY Zenon, VarParts DEF Shape
  <2> QED  BY SMT, <2>1
<1>8. Listing'
  <2>1. DOMAIN REGmap' \subseteq PlcNames'
    BY <1>2, <1>3, <1>5
  <2>2. pc' \in {"scada", "opc", "ready", "run"} => pc' = "scada"
    BY SMT, <1>1
  <2>3. pc' = "scada" => PlcNames' \subseteq DOMAIN REGmap'
    BY <1>2, <1>3, <1>6
  <2>4. pc' = "scada" => \A i \in DOMAIN file'.scada : \A j \in DOMAIN file'.scada[i].vars :
                           ~Passed(i, j)'
    BY Zenon, <1>1, <1>7 DEF Passed
  <2> QED  BY Zenon, <2>1, <2>2, <2>3, <2>4 DEF Listing
<1> QED  BY <1>4, <1>8

\* The entry of one more variable, or none for the crash.
LEMMA AddVarListed ==
  ASSUME Shape, NoTwins, Keyed, Listing, AddVar
  PROVE  Keyed' /\ Listing'
<1>0. PICK c, v, n : c = file.scada[at] /\ v = Here /\ n = FullName(SetName(c), v.name)
  OBVIOUS
<1>1. /\ pc = "scada" /\ at <= Len(file.scada) /\ c.complete /\ nth <= Len(c.vars)
      /\ check_type(v.type) /\ UNCHANGED <<file, at>>
      /\ \/ pc' = "crashed" /\ UNCHANGED <<nth, REGmap>>
         \/ /\ REGmap' = [m \in DOMAIN REGmap \cup {n} |->
                            IF m = n THEN ScadaEntry(c, v) ELSE REGmap[m]]
            /\ nth' = nth + 1 /\ pc' = pc
  BY Zenon, <1>0 DEF AddVar, InSet, Refused
<1>2. /\ PlcNames' = PlcNames /\ Taken' = Taken /\ \A w : SureOf(w)' = SureOf(w)
  BY Zenon, <1>1, SameTaken
<1>3. v = c.vars[nth] /\ at \in DOMAIN file.scada /\ nth \in DOMAIN c.vars
  <2>1. at \in DOMAIN file.scada
    BY SMT, <1>1, FileParts DEF Shape, Scalars
  <2>2. IsSeq(c.vars)
    <3>1. c \in SetOf(file.scada)
      BY <1>0, <2>1 DEF SetOf
    <3> QED  BY Zenon, <3>1, FilesAssumption DEF Shape, Scalars
  <2>3. nth \in DOMAIN c.vars
    BY SMT, <1>1, <2>2, SeqParts DEF Shape, Scalars
  <2> QED  BY <1>0, <2>1, <2>3 DEF Here
<1>4. CASE pc' = "crashed" /\ UNCHANGED <<nth, REGmap>>
  <2>1. Keyed'
    BY Zenon, <1>4 DEF Keyed
  <2>2. Listing'
    <3>1. DOMAIN REGmap' \subseteq PlcNames' \cup {RefName(x)' : x \in Taken'}
      BY Zenon, <1>2, <1>4 DEF Listing, RefName
    <3>2. pc' \notin {"scada", "opc", "ready", "run"}
      BY SMT, <1>4
    <3> QED  BY Zenon, <3>1, <3>2 DEF Listing
  <2> QED  BY <2>1, <2>2
<1>5. CASE /\ REGmap' = [m \in DOMAIN REGmap \cup {n} |->
                           IF m = n THEN ScadaEntry(c, v) ELSE REGmap[m]]
           /\ nth' = nth + 1 /\ pc' = pc
  <2>1. /\ DOMAIN REGmap' = DOMAIN REGmap \cup {n}
        /\ REGmap'[n] = ScadaEntry(c, v)
        /\ \A m \in DOMAIN REGmap : m # n => REGmap'[m] = REGmap[m]
    BY Zenon, <1>5
  <2>2. Keyed'
    <3>1. ASSUME NEW m \in DOMAIN REGmap', NEW e, e = REGmap'[m]
          PROVE  /\ m = FullName(m[1], m[2])
                 /\ e.path = [folders |-> e.path.folders, name |-> m] /\ IsSeq(e.path.folders)
                 /\ Known(e.prop.rtype) => e.Number.ua = type_attr[e.prop.rtype].ua
      <4>1. CASE m = n
        <5>1. e = ScadaEntry(c, v) /\ m = FullName(SetName(c), v.name) /\ Numbers
          BY <1>0, <2>1, <3>1, <4>1 DEF Shape
        <5> QED  BY <5>1, ScadaKeyed
      <4>2. CASE m # n
        <5>1. m \in DOMAIN REGmap /\ e = REGmap[m]
          BY <2>1, <3>1, <4>2
        <5> QED  BY Zenon, <5>1 DEF Keyed
      <4> QED  BY <4>1, <4>2
    <3> QED  BY Zenon, <3>1 DEF Keyed
  <2>3. Listing'
    <3>1. n \in {RefName(x) : x \in Taken}
      <4>1. PICK x : x = <<c, v>>
        OBVIOUS
      <4>2. x[1] = c /\ x[2] = v
        BY SMT, <4>1
      <4>3. c \in Sets /\ v \in SetOf(c.vars)
        BY Zenon, <1>0, <1>1, <1>3, VarParts DEF Shape
      <4>4. x \in Taken
        <5>1. v \in UNION {SetOf(d.vars) : d \in Sets}
          BY <4>3
        <5>2. x \in Given
          BY <4>1, <4>3, <5>1 DEF Given
        <5> QED  BY Zenon, <1>1, <4>2, <4>3, <5>2 DEF Taken
      <4>5. n = RefName(x)
        BY <1>0, <4>2 DEF RefName
      <4> QED  BY <4>4, <4>5
    <3>2. DOMAIN REGmap' \subseteq PlcNames' \cup {RefName(x)' : x \in Taken'}
      <4>1. DOMAIN REGmap \subseteq PlcNames \cup {RefName(x) : x \in Taken}
        BY DEF Listing
      <4>2. {RefName(x)' : x \in Taken'} = {RefName(x) : x \in Taken}
        BY Zenon, <1>2 DEF RefName
      <4> QED  BY <1>2, <2>1, <3>1, <4>1, <4>2
    <3>3. PlcNames' \subseteq DOMAIN REGmap'
      BY <1>1, <1>2, <2>1 DEF Listing
    <3>4. ASSUME NEW i \in DOMAIN file.scada, NEW d, d = file.scada[i],
                 NEW j \in DOMAIN d.vars, d.complete, Passed(i, j)', SureOf(d.vars[j])
          PROVE  FullName(SetName(d), d.vars[j].name) \in DOMAIN REGmap'
      <4>1. CASE Passed(i, j)
        <5>1. FullName(SetName(d), d.vars[j].name) \in DOMAIN REGmap
          BY Zenon, <1>1, <3>4, <4>1 DEF Listing
        <5> QED  BY <2>1, <5>1
      <4>2. CASE ~Passed(i, j)
        <5>1. i \in Nat /\ j \in Nat
          BY Zenon, <3>4, VarParts DEF Shape
        <5>2. i = at /\ j = nth
          BY SMT, <1>1, <1>5, <3>4, <4>2, <5>1 DEF Passed, Shape, Scalars
        <5>3. FullName(SetName(d), d.vars[j].name) = n
          BY <1>0, <1>3, <3>4, <5>2
        <5> QED  BY <2>1, <5>3
      <4> QED  BY <4>1, <4>2
    <3> QED  BY Zenon, <1>1, <1>2, <3>2, <3>3, <3>4 DEF Listing, RefName
  <2> QED  BY <2>2, <2>3
<1> QED  BY <1>1, <1>4, <1>5

\* The steps of loading that leave the entries as they are: no variable is
\* passed over that must not be.
LEMMA StillListed ==
  ASSUME Keyed, Listing, UNCHANGED <<file, REGmap>>, pc \in {"scada", "opc"},
         \A i \in DOMAIN file.scada : \A j \in DOMAIN file.scada[i].vars :
           file.scada[i].complete /\ SureOf(file.scada[i].vars[j]) /\ Passed(i, j)' => Passed(i, j)
  PROVE  Keyed' /\ Listing'
<1>1. /\ PlcNames' = PlcNames /\ Taken' = Taken /\ \A w : SureOf(w)' = SureOf(w)
  BY Zenon, SameTaken
<1>2. Keyed'
  BY Zenon DEF Keyed
<1>3. DOMAIN REGmap' \subseteq PlcNames' \cup {RefName(x)' : x \in Taken'}
  BY Zenon, <1>1 DEF Listing, RefName
<1>4. PlcNames' \subseteq DOMAIN REGmap'
  BY Zenon, <1>1 DEF Listing
<1>5. ASSUME NEW i \in DOMAIN file.scada, NEW j \in DOMAIN file.scada[i].vars,
             file.scada[i].complete, Passed(i, j)', SureOf(file.scada[i].vars[j])
      PROVE  FullName(SetName(file.scada[i]), file.scada[i].vars[j].name) \in DOMAIN REGmap'
  BY Zenon, <1>5 DEF Listing
<1> QED  BY Zenon, <1>1, <1>2, <1>3, <1>4, <1>5 DEF Listing, RefName

LEMMA NothingListed ==
  ASSUME DOMAIN REGmap' = {}, pc' \notin {"scada", "opc", "ready", "run"}
  PROVE  Keyed' /\ Listing'
BY Zenon DEF Keyed, Listing

\* Every step of loading and taking down.
LEMMA ConfigListed ==
  ASSUME Shape, Shape', Sane, Sane', NoTwins', NoTwins => Keyed /\ Listing, ConfigStep
  PROVE  Keyed' /\ Listing'
<1>1. CASE (\E f \in File : ReadFile(f)) \/ SkipPlc \/ AddPlc \/ OpcDeinit \/ MbDeinit
  <2>1. /\ UNCHANGED REGmap /\ pc \in {"out", "plc", "noregs", "noopc"}
        /\ pc' \notin {"scada", "opc", "ready", "run"}
    BY SMT, <1>1 DEF ReadFile, SkipPlc, AddPlc, OpcDeinit, MbDeinit
  <2>2. DOMAIN REGmap' = {}
    BY <2>1 DEF Shape, Phases
  <2> QED  BY <2>1, <2>2, NothingListed
<1>2. CASE RegsDeinit
  BY SMT, <1>2, NothingListed DEF RegsDeinit, Empty
<1>3. ASSUME file' = file PROVE NoTwins /\ Keyed /\ Listing /\ Made /\ HasAll'
  <2>1. NoTwins
    BY Zenon, <1>3, SameFile
  <2> QED  BY <2>1 DEF Sane
<1>4. CASE CreateEntries
  <2>1. file' = file
    BY Zenon, <1>4 DEF CreateEntries
  <2> QED  BY <1>3, <1>4, <2>1, CreateEntriesListed
<1>5. CASE AddVar
  <2>1. file' = file
    BY Zenon, <1>5 DEF AddVar
  <2> QED  BY <1>3, <1>5, <2>1, AddVarListed
<1>6. CASE NextSet
  <2>1. /\ pc = "scada" /\ UNCHANGED <<file, pc, REGmap>> /\ at' = at + 1 /\ nth' = 1
        /\ ~file.scada[at].complete \/ nth > Len(file.scada[at].vars)
    BY Zenon, <1>6 DEF NextSet
  <2>2. ASSUME NEW i \in DOMAIN file.scada, NEW j \in DOMAIN file.scada[i].vars,
               file.scada[i].complete, Passed(i, j)'
        PROVE  Passed(i, j)
    <3>1. /\ i \in Nat /\ j \in Nat /\ 1 <= j /\ j <= Len(file.scada[i].vars)
          /\ Len(file.scada[i].vars) \in Nat
      BY Zenon, VarParts DEF Shape
    <3>2. i < at \/ i = at
      BY SMT, <2>1, <2>2, <3>1 DEF Passed, Shape, Scalars
    <3>3. i = at => j < nth
      BY SMT, <2>1, <2>2, <3>1 DEF Shape, Scalars
    <3> QED  BY <3>2, <3>3 DEF Passed
  <2> QED  BY <1>3, <2>1, <2>2, StillListed
<1>7. CASE SkipVar
  <2>1. /\ pc = "scada" /\ UNCHANGED <<file, pc, at, REGmap>> /\ nth' = nth + 1
        /\ Refused(Here)
    BY Zenon, <1>7 DEF SkipVar, InSet
  <2>2. ~SureOf(Here)
    <3>1. PlcNames \subseteq DOMAIN REGmap
      BY <1>3, <2>1 DEF Listing
    <3> QED  BY Zenon, <2>1, <3>1 DEF Refused, SureOf
  <2>3. ASSUME NEW i \in DOMAIN file.scada, NEW j \in DOMAIN file.scada[i].vars,
               SureOf(file.scada[i].vars[j]), Passed(i, j)'
        PROVE  Passed(i, j)
    <3>1. i \in Nat /\ j \in Nat
      BY Zenon, VarParts DEF Shape
    <3>2. i < at \/ (i = at /\ j < nth) \/ (i = at /\ j = nth)
      BY SMT, <2>1, <2>3, <3>1 DEF Passed, Shape, Scalars
    <3>3. ~(i = at /\ j = nth)
      BY <2>2, <2>3 DEF Here
    <3> QED  BY <3>2, <3>3 DEF Passed
  <2> QED  BY <1>3, <2>1, <2>3, StillListed
<1>8. CASE ScadaDone
  <2>1. pc = "scada" /\ UNCHANGED <<file, REGmap>> /\ at > Len(file.scada)
    BY Zenon, <1>8 DEF ScadaDone
  <2>2. ASSUME NEW i \in DOMAIN file.scada, NEW j \in DOMAIN file.scada[i].vars
        PROVE  Passed(i, j)
    <3>1. i \in Nat /\ i <= Len(file.scada) /\ Len(file.scada) \in Nat
      BY Zenon, VarParts, FileParts DEF Shape, Scalars
    <3> QED  BY SMT, <2>1, <3>1 DEF Passed, Shape, Scalars
  <2> QED  BY <1>3, <2>1, <2>2, StillListed
<1>9. CASE OpcRegsInit
  <2>1. pc = "opc" /\ UNCHANGED <<file, REGmap>>
    BY Zenon, <1>9 DEF OpcRegsInit
  <2>2. \A i, j : Passed(i, j)
    BY SMT, <2>1 DEF Passed
  <2> QED  BY <1>3, <2>1, <2>2, StillListed
<1> QED
  BY Zenon, <1>1, <1>2, <1>4, <1>5, <1>6, <1>7, <1>8, <1>9 DEF ConfigStep

\* What the server is given is what it serves.
LEMMA GivenIsServed ==
  ASSUME Keyed, DOMAIN opcvars = {}, OpcRegsInit
  PROVE  Serving'
<1>1. opcvars' = opc_regs_init /\ REGmap' = REGmap
  BY Zenon DEF OpcRegsInit
<1>2. ASSUME NEW n \in DOMAIN REGmap, Shows(n) PROVE Announced(n)'
  <2>1. PICK e, O : e = REGmap[n] /\ O = opc_regs_init
    OBVIOUS
  <2>2. /\ e.path \in DOMAIN O /\ O[e.path] = type_attr[e.prop.rtype].ua
        /\ \A p \in DOMAIN O : p.name = n => p = e.path
        /\ e.path.folders # <<>> => O[Parent(e.path)] = "folder"
    BY <1>2, <2>1, GivenAsShown
  <2>3. e.path.name = n
    <3>1. e.path = [folders |-> e.path.folders, name |-> n]
      BY Zenon, <2>1 DEF Keyed
    <3>2. \A f : [folders |-> f, name |-> n].name = n
      BY SMT
    <3> QED  BY Zenon, <3>1, <3>2
  <2>4. e.path = CHOOSE p \in DOMAIN O : p.name = n
    BY <2>2, <2>3
  <2>5. GetVarFullName(n)' = e.path
    BY Zenon, <1>1, <2>1, <2>2, <2>3, <2>4 DEF GetVarFullName
  <2> QED  BY Zenon, <1>1, <2>1, <2>2, <2>5 DEF Announced, Parent, FolderPath
<1> QED  BY Zenon, <1>1, <1>2 DEF Serving, Shows

LEMMA ConfigTaking ==
  ASSUME Shape, Shape', Sane, Sane', Taking, ConfigStep, UNCHANGED run
  PROVE  Taking'
<1>1. /\ pc # "run"
      /\ \/ OpcRegsInit
         \/ pc' \notin {"ready", "run"}
  BY SMT DEF ConfigStep, ReadFile, SkipPlc, AddPlc, CreateEntries, NextSet, SkipVar, InSet,
     AddVar, ScadaDone, OpcRegsInit, RegsDeinit, OpcDeinit, MbDeinit
<1>2. shown' = {} /\ task' = task /\ task.op = "idle"
  BY Zenon, <1>1 DEF Taking, Timely, run, page
<1>3. \/ UNCHANGED opcvars /\ pc \in {"out", "plc", "scada", "noopc"}
      \/ UNCHANGED opcvars /\ pc' = "noregs"
      \/ opcvars' = Empty
      \/ OpcRegsInit /\ pc' = "ready" /\ pc = "opc"
  BY SMT DEF ConfigStep, ReadFile, SkipPlc, AddPlc, CreateEntries, NextSet, SkipVar, InSet,
     AddVar, ScadaDone, OpcRegsInit, RegsDeinit, OpcDeinit, MbDeinit
<1>4. Timely'
  <2>1. DOMAIN Empty = {}
    BY SMT DEF Empty
  <2>2. pc' \in {"out", "plc", "scada", "opc", "noopc"} => DOMAIN opcvars' = {}
    BY SMT, <1>3, <2>1 DEF Taking, Timely
  <2> QED  BY Zenon, <1>2, <2>2 DEF Timely
<1>5. ASSUME NoTwins' PROVE Keyed' /\ Listing' /\ Serving' /\ Paging'
  <2>1. Keyed' /\ Listing'
    BY <1>5, ConfigListed DEF Taking
  <2>2. Serving'
    <3>1. CASE OpcRegsInit
      <4>1. file' = file /\ pc = "opc"
        BY Zenon, <3>1 DEF OpcRegsInit
      <4>2. NoTwins
        BY Zenon, <1>5, <4>1, SameFile
      <4>3. Keyed /\ DOMAIN opcvars = {}
        BY <4>1, <4>2 DEF Taking, Timely
      <4> QED  BY <3>1, <4>3, GivenIsServed
    <3>2. CASE pc' \notin {"ready", "run"}
      BY Zenon, <3>2 DEF Serving
    <3> QED  BY <1>1, <3>1, <3>2
  <2>3. Paging'
    BY Zenon, <1>2 DEF Paging
  <2> QED  BY <2>1, <2>2, <2>3
<1> QED  BY <1>4, <1>5 DEF Taking

\* What the tasks do to the page and with the entry they work on.
LEMMA RunTimely ==
  ASSUME Timely, Poller \/ Refresher \/ Start \/ Stop
  PROVE  /\ Timely' /\ opcvars' = opcvars
         /\ \/ JSON_reg' = JSON_reg /\ shown' = shown
            \/ shown' = {}
            \/ \E n \in DOMAIN REGmap : JsonUpdate(n)
<1>1. /\ opcvars' = opcvars /\ DOMAIN REGmap' = DOMAIN REGmap
      /\ \/ pc' = pc
         \/ pc = "ready" /\ pc' = "run"
         \/ pc = "run" /\ pc' = "stopped"
  <2>1. opcvars' = opcvars
    BY Zenon DEF Start, Stop, Poller, PollAnswered, PollFails, CopyReg, CopyEnds, WriteReg,
       WriteEnds, Refresher, ReadBegins, WriteBegins, ReadWord, ReadEnds, WriteWord,
       WriteDone, TakeOpc, loaded, config
  <2>2. DOMAIN REGmap' = DOMAIN REGmap
    BY RunKeepsEntries DEF SameEntries
  <2> QED  BY <2>1, <2>2, RunPlaces
<1>2. ASSUME NEW t, t = task', t.op = task.op, t.n = task.n, UNCHANGED <<pc, JSON_reg, shown>>
      PROVE  Timely'
  BY SMT, <1>1, <1>2 DEF Timely
<1>3. CASE Poller
  <2>1. UNCHANGED <<pc, JSON_reg, shown>>
    BY Zenon, <1>3 DEF Poller, PollAnswered, PollFails, CopyReg, CopyEnds, WriteReg,
       WriteEnds, loaded, config, page
  <2>2. \/ task' = task
        \/ \E b : task' = [task EXCEPT !.torn = b]
    BY Zenon, <1>3 DEF Poller, PollAnswered, PollFails, CopyReg, CopyEnds, WriteReg,
       WriteEnds, Stored
  <2>3. PICK t, b : t = task' /\ (t = task \/ t = [task EXCEPT !.torn = b])
    BY <2>2
  <2>4. PICK u : u = [task EXCEPT !.torn = b]
    OBVIOUS
  <2>5. u.op = task.op /\ u.n = task.n
    BY SMT, <2>4
  <2>6. t.op = task.op /\ t.n = task.n
    BY <2>3, <2>4, <2>5
  <2> QED  BY <1>1, <1>2, <2>1, <2>3, <2>6
<1>4. ASSUME NEW n \in Watched, ReadBegins(n) \/ \E v \in Commands(n) : WriteBegins(n, v)
      PROVE  Timely' /\ UNCHANGED <<JSON_reg, shown>>
  <2>1. UNCHANGED <<pc, JSON_reg, shown>> /\ pc = "run"
    BY Zenon, <1>4 DEF ReadBegins, WriteBegins, config, page
  <2>2. PICK o, i, v, b, r : task' = [op |-> o, n |-> n, i |-> i, val |-> v, bad |-> b, torn |-> r]
    <3>1. CASE ReadBegins(n)
      <4>1. PICK i, b, r :
              /\ i = (IF Entry(n).prop.rsize = 1 /\ (get_plc_errors(n)
                                 \/ Entry(n).prop.rtype \in {"HEX", "BINARY"})
                      THEN 0 ELSE Entry(n).prop.rsize)
              /\ b = get_plc_errors(n) /\ r = (poll.op = "copy")
        OBVIOUS
      <4>2. task' = [op |-> "read", n |-> n, i |-> i, val |-> Blank, bad |-> b, torn |-> r]
        BY Zenon, <3>1, <4>1 DEF ReadBegins
      <4> QED  BY <4>2
    <3>2. ASSUME NEW v, WriteBegins(n, v)
          PROVE  \E o, i, w, b, r :
                   task' = [op |-> o, n |-> n, i |-> i, val |-> w, bad |-> b, torn |-> r]
      BY Zenon, <3>2 DEF WriteBegins
    <3> QED  BY Zenon, <1>4, <3>1, <3>2
  <2>3. PICK t : t = task'
    OBVIOUS
  <2>4. t.n = n
    BY SMT, <2>2, <2>3
  <2>5. n \in DOMAIN REGmap
    BY DEF Watched
  <2> QED  BY Zenon, <1>1, <2>1, <2>3, <2>4, <2>5 DEF Timely
<1>5. CASE ReadWord \/ WriteWord
  <2>1. UNCHANGED <<pc, JSON_reg, shown>>
    BY Zenon, <1>5 DEF ReadWord, WriteWord, loaded, page
  <2>2. PICK i, w : \/ task' = [[task EXCEPT !.i = i] EXCEPT !.val = w]
                    \/ task' = [task EXCEPT !.i = i]
    <3>1. CASE ReadWord
      <4>1. PICK i, v : task' = [task EXCEPT !.i = i, !.val[i] = v]
        BY Zenon, <3>1 DEF ReadWord
      <4>2. PICK w : w = [task.val EXCEPT ![i] = v]
        OBVIOUS
      <4>3. PICK u : u = [task EXCEPT !.i = i]
        OBVIOUS
      <4>4. u.val = task.val
        BY SMT, <4>3
      <4>5. task' = [u EXCEPT !.val = w]
        BY Zenon, <4>1, <4>2, <4>3, <4>4
      <4> QED  BY <4>3, <4>5
    <3>2. CASE WriteWord
      <4>1. PICK i : i = task.i + 1
        OBVIOUS
      <4>2. task' = [task EXCEPT !.i = i]
        BY Zenon, <3>2, <4>1 DEF WriteWord
      <4> QED  BY <4>2
    <3> QED  BY <1>5, <3>1, <3>2
  <2>3. PICK t, u : t = task' /\ u = [task EXCEPT !.i = i]
    OBVIOUS
  <2>4. u.op = task.op /\ u.n = task.n
    BY SMT, <2>3
  <2>5. [u EXCEPT !.val = w].op = u.op /\ [u EXCEPT !.val = w].n = u.n
    BY SMT
  <2>6. t = u \/ t = [u EXCEPT !.val = w]
    BY <2>2, <2>3
  <2>7. t.op = task.op /\ t.n = task.n
    BY <2>4, <2>5, <2>6
  <2> QED  BY <1>1, <1>2, <2>1, <2>3, <2>7
<1>6. CASE ReadEnds \/ WriteDone
  <2>1. UNCHANGED pc /\ task' = NoTask /\ JsonUpdate(task.n) /\ task.op \in {"read", "write"}
    BY SMT, <1>6 DEF ReadEnds, WriteDone, loaded
  <2>2. task.n \in DOMAIN REGmap /\ pc = "run"
    BY SMT, <2>1 DEF Timely
  <2>3. NoTask.op = "idle"
    BY SMT DEF NoTask
  <2>4. Timely'
    BY Zenon, <1>1, <2>1, <2>2, <2>3 DEF Timely
  <2> QED  BY <1>1, <2>1, <2>2, <2>4
<1>7. ASSUME NEW n \in Watched, NEW v, TakeOpc(n, v)
      PROVE  Timely' /\ \E m \in DOMAIN REGmap : JsonUpdate(m)
  <2>1. UNCHANGED <<pc, task>> /\ JsonUpdate(n) /\ pc = "run" /\ task.op = "idle"
    BY Zenon, <1>7 DEF TakeOpc, loaded
  <2>2. n \in DOMAIN REGmap
    BY DEF Watched
  <2>3. Timely'
    BY Zenon, <1>1, <2>1 DEF Timely
  <2> QED  BY <2>1, <2>2, <2>3
<1>8. CASE Start
  <2>1. UNCHANGED <<task, JSON_reg, shown>> /\ pc = "ready" /\ pc' = "run"
    BY Zenon, <1>8 DEF Start
  <2>2. shown = {} /\ task.op = "idle"
    BY SMT, <2>1 DEF Timely
  <2>3. Timely'
    BY Zenon, <1>1, <2>1, <2>2 DEF Timely
  <2> QED  BY <1>1, <2>1, <2>3
<1>9. CASE Stop
  <2>1. UNCHANGED task /\ shown' = {} /\ task.op = "idle" /\ pc' = "stopped"
    BY Zenon, <1>9 DEF Stop
  <2>2. Timely'
    BY Zenon, <1>1, <2>1 DEF Timely
  <2> QED  BY <1>1, <2>1, <2>2
<1> QED
  BY Zenon, <1>1, <1>3, <1>4, <1>5, <1>6, <1>7, <1>8, <1>9 DEF Refresher

\* An entry put on the page is shown as of its type, and the others as before.
LEMMA PagingKept ==
  ASSUME Numbers, Keyed, Paging, SameEntries(REGmap, REGmap'),
         \/ JSON_reg' = JSON_reg /\ shown' = shown
         \/ shown' = {}
         \/ \E n \in DOMAIN REGmap : JsonUpdate(n)
  PROVE  Paging'
<1>1. /\ DOMAIN REGmap' = DOMAIN REGmap
      /\ \A n \in DOMAIN REGmap : /\ REGmap'[n].path = REGmap[n].path
                                  /\ REGmap'[n].prop = REGmap[n].prop
                                  /\ REGmap'[n].Number.ua = REGmap[n].Number.ua
  BY Zenon DEF SameEntries, SameEntry, Numbers
<1>2. \A n \in DOMAIN REGmap : JsonNumber(REGmap'[n].Number) = JsonNumber(REGmap[n].Number)
  BY Zenon, <1>1 DEF JsonNumber
<1>3. ASSUME JSON_reg' = JSON_reg, shown' = shown
      PROVE  Paging'
  BY Zenon, <1>1, <1>2, <1>3 DEF Paging, Shows, OnPage
<1>4. ASSUME shown' = {} PROVE Paging'
  BY Zenon, <1>4 DEF Paging
<1>5. ASSUME NEW m \in DOMAIN REGmap, JsonUpdate(m)
      PROVE  Paging'
  <2> DEFINE p == REGmap[m].path
             S == IF IsMillis(p) THEN {StatusPath(p)} ELSE {}
  <2>1. p = REGmap[m].path /\ \A q \in S : q = StatusPath(p)
    OBVIOUS
  <2>2. /\ JSON_reg' = [q \in DOMAIN JSON_reg \cup {p} \cup S |->
                          IF q = p THEN JsonNumber(REGmap[m].Number)
                          ELSE IF q \in S THEN "INT16" ELSE JSON_reg[q]]
        /\ shown' = shown \cup {m}
    BY <1>5 DEF JsonUpdate
  <2> HIDE DEF p, S
  <2>3. /\ DOMAIN JSON_reg' = DOMAIN JSON_reg \cup {p} \cup S
        /\ \A q \in DOMAIN JSON_reg \cup {p} \cup S :
             JSON_reg'[q] = IF q = p THEN JsonNumber(REGmap[m].Number)
                            ELSE IF q \in S THEN "INT16" ELSE JSON_reg[q]
    BY Zenon, <2>2
  <2>4. \A f, n : [folders |-> f, name |-> n].name = n
    BY SMT
  <2>5. ASSUME NEW n \in DOMAIN REGmap PROVE REGmap[n].path.name = n
    <3>1. REGmap[n].path = [folders |-> REGmap[n].path.folders, name |-> n]
      BY Zenon DEF Keyed
    <3> QED  BY Zenon, <2>4, <3>1
  <2>6. \A q \in S : q.name[2] = "status"
    <3>1. PICK f, a, b : f = p.folders /\ a = m[1] /\ b = m[2]
      OBVIOUS
    <3>2. p = [folders |-> f, name |-> m] /\ m = FullName(a, b)
      BY Zenon, <2>1, <3>1 DEF Keyed
    <3>3. StatusPath(p).name[2] = "status"
      BY <3>2, StatusName
    <3> QED  BY <2>1, <3>3
  <2>7. ASSUME NEW n \in shown' \cap DOMAIN REGmap, n[2] # "status",
               n \in shown => /\ REGmap[n].path \in DOMAIN JSON_reg
                              /\ JSON_reg[REGmap[n].path] = JsonNumber(REGmap[n].Number)
        PROVE  /\ REGmap[n].path \in DOMAIN JSON_reg'
               /\ JSON_reg'[REGmap[n].path] = JsonNumber(REGmap[n].Number)
    <3>1. CASE n = m
      BY Zenon, <2>1, <2>3, <3>1
    <3>2. CASE n # m
      <4>1. n \in shown
        BY <2>2, <3>2
      <4>2. REGmap[n].path # p
        BY <2>1, <2>5, <3>2
      <4>3. REGmap[n].path \notin S
        BY <2>5, <2>6, <2>7
      <4> QED  BY Zenon, <2>3, <2>7, <4>1, <4>2, <4>3
    <3> QED  BY <3>1, <3>2
  <2>8. ASSUME NEW n \in shown' \cap DOMAIN REGmap, Shows(n)
        PROVE  /\ REGmap[n].path \in DOMAIN JSON_reg'
               /\ JSON_reg'[REGmap[n].path] = JsonNumber(REGmap[n].Number)
    <3>1. n[2] # "status"
      BY <2>8 DEF Shows
    <3>2. n \in shown => /\ REGmap[n].path \in DOMAIN JSON_reg
                         /\ JSON_reg[REGmap[n].path] = JsonNumber(REGmap[n].Number)
      BY Zenon, <2>8 DEF Paging, OnPage
    <3> QED  BY <2>7, <3>1, <3>2
  <2> QED  BY Zenon, <1>1, <1>2, <2>8 DEF Paging, Shows, OnPage
<1> QED  BY <1>3, <1>4, <1>5

LEMMA StillTaking ==
  ASSUME Shape, Taking, UNCHANGED <<file, at, nth, opcvars>>, Timely',
         \/ pc' = pc
         \/ pc = "ready" /\ pc' = "run"
         \/ pc = "run" /\ pc' = "stopped",
         SameEntries(REGmap, REGmap'),
         \/ JSON_reg' = JSON_reg /\ shown' = shown
         \/ shown' = {}
         \/ \E n \in DOMAIN REGmap : JsonUpdate(n)
  PROVE  Taking'
<1>1. /\ PlcNames' = PlcNames /\ Taken' = Taken /\ NoTwins' = NoTwins
      /\ \A w : SureOf(w)' = SureOf(w)
  BY Zenon, SameTaken
<1>2. /\ DOMAIN REGmap' = DOMAIN REGmap
      /\ \A n \in DOMAIN REGmap : /\ REGmap'[n].path = REGmap[n].path
                                  /\ REGmap'[n].prop = REGmap[n].prop
                                  /\ REGmap'[n].Number.ua = REGmap[n].Number.ua
  BY Zenon DEF SameEntries, SameEntry, Shape, Numbers
<1>3. ASSUME NoTwins PROVE Keyed' /\ Listing' /\ Serving' /\ Paging'
  <2>1. Keyed /\ Listing /\ Serving /\ Paging
    BY <1>3 DEF Taking
  <2>2. Keyed'
    BY Zenon, <1>2, <2>1 DEF Keyed
  <2>3. Listing'
    <3>1. DOMAIN REGmap' \subseteq PlcNames' \cup {RefName(x)' : x \in Taken'}
      BY Zenon, <1>1, <1>2, <2>1 DEF Listing, RefName
    <3>2. pc' \in {"scada", "opc", "ready", "run"} =>
            /\ pc \in {"scada", "opc", "ready", "run"}
            /\ \A i, j : Passed(i, j)' => Passed(i, j)
      BY SMT DEF Passed
    <3>3. pc' \in {"scada", "opc", "ready", "run"} => PlcNames' \subseteq DOMAIN REGmap'
      BY Zenon, <1>1, <1>2, <2>1, <3>2 DEF Listing
    <3>4. ASSUME pc' \in {"scada", "opc", "ready", "run"},
                 NEW i \in DOMAIN file.scada, NEW j \in DOMAIN file.scada[i].vars,
                 file.scada[i].complete, Passed(i, j)', SureOf(file.scada[i].vars[j])
          PROVE  FullName(SetName(file.scada[i]), file.scada[i].vars[j].name) \in DOMAIN REGmap'
      BY Zenon, <1>2, <2>1, <3>2, <3>4 DEF Listing
    <3> QED  BY Zenon, <1>1, <3>1, <3>3, <3>4 DEF Listing, RefName
  <2>4. Serving'
    <3>1. pc' \in {"ready", "run"} => pc \in {"ready", "run"}
      BY SMT
    <3>2. \A n : GetVarFullName(n)' = GetVarFullName(n)
      BY Zenon DEF GetVarFullName, FolderPath
    <3>3. ASSUME NEW n \in DOMAIN REGmap, Announced(n) PROVE Announced(n)'
      BY Zenon, <1>2, <3>2, <3>3 DEF Announced, Parent, FolderPath
    <3>4. \A n \in DOMAIN REGmap : Shows(n)' = Shows(n)
      BY Zenon, <1>2 DEF Shows
    <3> QED  BY Zenon, <1>2, <2>1, <3>1, <3>3, <3>4 DEF Serving
  <2>5. Paging'
    BY <2>1, PagingKept DEF Shape
  <2> QED  BY <2>2, <2>3, <2>4, <2>5
<1> QED  BY Zenon, <1>1, <1>3 DEF Taking

LEMMA TakingInit == RunInit => Taking
<1> SUFFICES ASSUME RunInit PROVE Taking
  OBVIOUS
<1>1. /\ pc = "out" /\ REGmap = Empty /\ opcvars = Empty /\ shown = {}
      /\ task = NoTask
  BY Zenon DEF RunInit, Init
<1>2. DOMAIN REGmap = {} /\ DOMAIN opcvars = {} /\ task.op = "idle"
  BY SMT, <1>1 DEF Empty, NoTask
<1>3. Timely
  BY Zenon, <1>1, <1>2 DEF Timely
<1>4. Keyed /\ Serving /\ Paging
  BY Zenon, <1>2 DEF Keyed, Serving, Paging
<1>5. Listing
  BY SMT, <1>1, <1>2 DEF Listing
<1> QED  BY <1>3, <1>4, <1>5 DEF Taking

LEMMA TakingStep ==
  ASSUME IInv, IInv', Taking, [Next]_vars
  PROVE  Taking'
<1>1. CASE ConfigStep /\ UNCHANGED run
  BY <1>1, ConfigTaking DEF IInv
<1>2. CASE Poller \/ Refresher \/ Start \/ Stop
  BY <1>2, RunTimely, RunPlaces, RunKeepsEntries, StillTaking DEF IInv, Taking
<1>3. CASE UNCHANGED vars
  <2>1. /\ UNCHANGED <<file, pc, at, nth, REGmap, opcvars>>
        /\ UNCHANGED <<task, JSON_reg, shown>>
    BY Zenon, <1>3 DEF vars, config, run, page
  <2>2. SameEntries(REGmap, REGmap')
    BY Zenon, <2>1 DEF SameEntries, SameEntry
  <2>3. Timely'
    BY <2>1 DEF Timely, Taking
  <2> QED  BY <2>1, <2>2, <2>3, StillTaking DEF IInv
<1> QED  BY <1>1, <1>2, <1>3 DEF Next

\* A file without twins is taken as it is written, whatever was loaded before:
\* the entries are those of its listed PLCs and its variables (regs_create_from_plc,
\* cfg_init_scadaset); opc_regs_init publishes each with its type, in a folder,
\* and the page shows it as of that type (json_update).
THEOREM TakenIsWritten == Spec => []TakenAsWritten
<1>1. RunInit => IInv /\ Taking
  BY ShapeInit, SaneInit, TakingInit DEF IInv
<1>2. (IInv /\ Taking) /\ [Next]_vars => (IInv /\ Taking)'
  <2>1. IInv /\ [Next]_vars => IInv'
    BY ShapeStep, SaneStep DEF IInv
  <2> QED  BY <2>1, TakingStep
<1>3. ASSUME Taking, NoTwins, pc \in {"ready", "run"} PROVE TakenAsWritten
  <2>1. Keyed /\ Listing /\ Serving /\ Paging
    BY <1>3 DEF Taking
  <2>2. /\ PlcNames \subseteq DOMAIN REGmap
        /\ DOMAIN REGmap \subseteq PlcNames \cup {RefName(x) : x \in Taken}
    BY <1>3, <2>1 DEF Listing
  <2>3. ASSUME NEW x \in Refs PROVE RefName(x) \in DOMAIN REGmap
    <3>1. /\ x[1] \in Sets /\ x[2] \in SetOf(x[1].vars) /\ SureOf(x[2])
      BY DEF Refs, Taken, Given, SureOf
    <3>2. PICK i \in DOMAIN file.scada : x[1] = file.scada[i] /\ x[1].complete
      BY <3>1 DEF Sets, SetOf
    <3>3. PICK j \in DOMAIN x[1].vars : x[2] = x[1].vars[j]
      BY <3>1 DEF SetOf
    <3>4. Passed(i, j)
      BY SMT, <1>3 DEF Passed
    <3> QED  BY Zenon, <1>3, <2>1, <3>1, <3>2, <3>3, <3>4 DEF Listing, RefName
  <2>4. ASSUME NEW n \in DOMAIN REGmap, Shows(n), n \in shown
        PROVE  JSON_reg[REGmap[n].path] = opcvars[REGmap[n].path]
    <3>1. JSON_reg[REGmap[n].path] = JsonNumber(REGmap[n].Number)
      BY Zenon, <2>1, <2>4 DEF Paging, OnPage
    <3>2. Known(REGmap[n].prop.rtype)
      BY Zenon, <2>4, PublishedKnown DEF Shows
    <3>3. REGmap[n].Number.ua = type_attr[REGmap[n].prop.rtype].ua
      BY Zenon, <2>1, <3>2 DEF Keyed
    <3>4. JsonNumber(REGmap[n].Number) = REGmap[n].Number.ua
      BY Zenon, <3>2, <3>3, Widths DEF JsonNumber
    <3>5. opcvars[REGmap[n].path] = type_attr[REGmap[n].prop.rtype].ua
      BY Zenon, <1>3, <2>1, <2>4 DEF Serving, Announced
    <3> QED  BY <3>1, <3>3, <3>4, <3>5
  <2>5. \A n \in DOMAIN REGmap : Shows(n) => Announced(n)
    BY <1>3, <2>1 DEF Serving
  <2> QED  BY Zenon, <2>2, <2>3, <2>4, <2>5 DEF TakenAsWritten, Shows, Announced
<1>4. Taking => TakenAsWritten
  BY <1>3 DEF TakenAsWritten
<1> QED  BY <1>1, <1>2, <1>4, PTL DEF Spec

=============================================================================
