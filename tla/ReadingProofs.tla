----------------------------- MODULE ReadingProofs -----------------------------
(***************************************************************************)
(* Theorems about the register layer at work (Registers), for any          *)
(* configuration files: which words a reading shows, that an answer of the *)
(* device is not mixed with another, and which commands read back.         *)
(***************************************************************************)
EXTENDS LoadProofs, WellFoundedInduction

-----------------------------------------------------------------------------
(* One register is changed.                                                *)

RegRecord(r) ==
  r = [name |-> r.name, folder |-> r.folder, rmode |-> r.rmode, rvalue |-> r.rvalue,
       rupdate |-> r.rupdate, rerrors |-> r.rerrors, r_next |-> r.r_next]
Object(D) ==
  /\ D = [name |-> D.name, folder |-> D.folder, lock |-> D.lock, regs |-> D.regs]
  /\ \A a \in DOMAIN D.regs : a \in Nat /\ RegRecord(D.regs[a])

\* U is V but for the register at a of the k-th PLC, which is r.
Only(V, U, k, a, r) ==
  /\ DOMAIN U = DOMAIN V
  /\ \A j \in DOMAIN V : j # k => U[j] = V[j]
  /\ U[k] = [name |-> V[k].name, folder |-> V[k].folder, lock |-> V[k].lock,
             regs |-> U[k].regs]
  /\ DOMAIN U[k].regs = DOMAIN V[k].regs
  /\ \A b \in DOMAIN V[k].regs : U[k].regs[b] = IF b = a THEN r ELSE V[k].regs[b]

LEMMA OnlyThere ==
  ASSUME NEW V, NEW k \in DOMAIN V, Object(V[k]), NEW a \in DOMAIN V[k].regs, NEW r
  PROVE  Only(V, [V EXCEPT ![k].regs = [V[k].regs EXCEPT ![a] = r]], k, a, r)
<1>1. PICK D, R : D = V[k] /\ R = [D.regs EXCEPT ![a] = r]
  OBVIOUS
<1>2. PICK E : E = [D EXCEPT !.regs = R]
  OBVIOUS
<1>3. PICK U : U = [V EXCEPT ![k] = E]
  OBVIOUS
<1>4. [V EXCEPT ![k].regs = [V[k].regs EXCEPT ![a] = r]] = U
  BY Zenon, <1>1, <1>2, <1>3
<1>5. DOMAIN U = DOMAIN V /\ U[k] = E /\ \A j \in DOMAIN V : j # k => U[j] = V[j]
  BY Zenon, <1>3
<1>6. DOMAIN R = DOMAIN D.regs /\ \A b \in DOMAIN R : R[b] = IF b = a THEN r ELSE D.regs[b]
  BY Zenon, <1>1
<1>7. D = [name |-> D.name, folder |-> D.folder, lock |-> D.lock, regs |-> D.regs]
  BY <1>1 DEF Object
<1>8. E = [name |-> D.name, folder |-> D.folder, lock |-> D.lock, regs |-> R]
  BY SMT, <1>2, <1>7
<1>9. E.regs = R
  BY SMT, <1>8
<1> QED  BY Zenon, <1>1, <1>4, <1>5, <1>6, <1>8, <1>9 DEF Only

\* The register r with another word or another mark.
With(r, w, u, e) == [name |-> r.name, folder |-> r.folder, rmode |-> r.rmode, rvalue |-> w,
                     rupdate |-> u, rerrors |-> e, r_next |-> r.r_next]

LEMMA FieldWith ==
  ASSUME NEW V, NEW k \in DOMAIN V, Object(V[k]), NEW a \in DOMAIN V[k].regs, NEW w,
         NEW r, r = V[k].regs[a]
  PROVE  /\ Only(V, [V EXCEPT ![k].regs[a].rvalue = w], k, a, With(r, w, r.rupdate, r.rerrors))
         /\ Only(V, [V EXCEPT ![k].regs[a].rupdate = w], k, a, With(r, r.rvalue, w, r.rerrors))
         /\ Only(V, [V EXCEPT ![k].regs[a].rerrors = w], k, a, With(r, r.rvalue, r.rupdate, w))
<1>1. RegRecord(r)
  BY DEF Object
<1>2. /\ [r EXCEPT !.rvalue = w] = With(r, w, r.rupdate, r.rerrors)
      /\ [r EXCEPT !.rupdate = w] = With(r, r.rvalue, w, r.rerrors)
      /\ [r EXCEPT !.rerrors = w] = With(r, r.rvalue, r.rupdate, w)
  BY SMT, <1>1 DEF RegRecord, With
<1>3. /\ [V EXCEPT ![k].regs[a].rvalue = w]
           = [V EXCEPT ![k].regs = [V[k].regs EXCEPT ![a] = [r EXCEPT !.rvalue = w]]]
      /\ [V EXCEPT ![k].regs[a].rupdate = w]
           = [V EXCEPT ![k].regs = [V[k].regs EXCEPT ![a] = [r EXCEPT !.rupdate = w]]]
      /\ [V EXCEPT ![k].regs[a].rerrors = w]
           = [V EXCEPT ![k].regs = [V[k].regs EXCEPT ![a] = [r EXCEPT !.rerrors = w]]]
  BY Zenon
<1> QED  BY Zenon, <1>2, <1>3, OnlyThere

LEMMA WithParts ==
  ASSUME NEW r, NEW w, NEW u, NEW e
  PROVE  LET s == With(r, w, u, e) IN
         /\ s.rvalue = w /\ s.rupdate = u /\ s.rerrors = e
         /\ s.name = r.name /\ s.folder = r.folder /\ s.rmode = r.rmode /\ s.r_next = r.r_next
         /\ RegRecord(s)
BY SMT DEF With, RegRecord

\* What is changed once more.
LEMMA OnlyTwice ==
  ASSUME NEW V, NEW U, NEW T, NEW k \in DOMAIN V, NEW a \in DOMAIN V[k].regs,
         Object(V[k]), NEW r, NEW s, Only(V, U, k, a, r), RegRecord(r)
  PROVE  /\ k \in DOMAIN U /\ a \in DOMAIN U[k].regs /\ Object(U[k]) /\ U[k].regs[a] = r
         /\ Only(U, T, k, a, s) => Only(V, T, k, a, s)
<1>1. PICK R : R = U[k].regs
  OBVIOUS
<1>2. U[k] = [name |-> V[k].name, folder |-> V[k].folder, lock |-> V[k].lock, regs |-> R]
  BY Zenon, <1>1 DEF Only
<1>3. /\ U[k].name = V[k].name /\ U[k].folder = V[k].folder /\ U[k].lock = V[k].lock
  BY SMT, <1>2
<1>4. /\ DOMAIN U = DOMAIN V /\ DOMAIN R = DOMAIN V[k].regs /\ R[a] = r
      /\ \A b \in DOMAIN R : R[b] = IF b = a THEN r ELSE V[k].regs[b]
  BY Zenon, <1>1 DEF Only
<1>5. Object(U[k])
  BY Zenon, <1>1, <1>2, <1>3, <1>4 DEF Object
<1>6. ASSUME Only(U, T, k, a, s) PROVE Only(V, T, k, a, s)
  <2>1. /\ T[k] = [name |-> V[k].name, folder |-> V[k].folder, lock |-> V[k].lock,
                   regs |-> T[k].regs]
    BY Zenon, <1>3, <1>6 DEF Only
  <2>2. \A j \in DOMAIN V : j # k => T[j] = V[j]
    BY Zenon, <1>6 DEF Only
  <2>3. DOMAIN T = DOMAIN V /\ DOMAIN T[k].regs = DOMAIN V[k].regs
    BY Zenon, <1>1, <1>4, <1>6 DEF Only
  <2>4. \A b \in DOMAIN V[k].regs : T[k].regs[b] = IF b = a THEN s ELSE V[k].regs[b]
    BY Zenon, <1>1, <1>4, <1>6 DEF Only
  <2> QED  BY Zenon, <2>1, <2>2, <2>3, <2>4 DEF Only
<1> QED  BY Zenon, <1>1, <1>4, <1>5, <1>6

LEMMA FieldsWith ==
  ASSUME NEW V, NEW k \in DOMAIN V, Object(V[k]), NEW a \in DOMAIN V[k].regs, NEW w, NEW u,
         NEW r, r = V[k].regs[a]
  PROVE  /\ Only(V, [V EXCEPT ![k].regs[a].rvalue = w, ![k].regs[a].rupdate = u],
                 k, a, With(r, w, u, r.rerrors))
         /\ Only(V, [V EXCEPT ![k].regs[a].rupdate = w, ![k].regs[a].rerrors = u],
                 k, a, With(r, r.rvalue, w, u))
<1>1. PICK U1, U2, r1, r2 :
        /\ U1 = [V EXCEPT ![k].regs[a].rvalue = w] /\ r1 = With(r, w, r.rupdate, r.rerrors)
        /\ U2 = [V EXCEPT ![k].regs[a].rupdate = w] /\ r2 = With(r, r.rvalue, w, r.rerrors)
  OBVIOUS
<1>2. Only(V, U1, k, a, r1) /\ Only(V, U2, k, a, r2)
  BY <1>1, FieldWith
<1>3. RegRecord(r1) /\ RegRecord(r2)
  BY <1>1, WithParts
<1>4. PICK T1, T2 : T1 = [U1 EXCEPT ![k].regs[a].rupdate = u]
                    /\ T2 = [U2 EXCEPT ![k].regs[a].rerrors = u]
  OBVIOUS
<1>5. /\ k \in DOMAIN U1 /\ a \in DOMAIN U1[k].regs /\ Object(U1[k]) /\ U1[k].regs[a] = r1
      /\ \A s : Only(U1, T1, k, a, s) => Only(V, T1, k, a, s)
  BY Zenon, <1>2, <1>3, OnlyTwice
<1>6. /\ k \in DOMAIN U2 /\ a \in DOMAIN U2[k].regs /\ Object(U2[k]) /\ U2[k].regs[a] = r2
      /\ \A s : Only(U2, T2, k, a, s) => Only(V, T2, k, a, s)
  BY Zenon, <1>2, <1>3, OnlyTwice
<1>7. Only(U1, T1, k, a, With(r1, r1.rvalue, u, r1.rerrors))
  BY <1>4, <1>5, FieldWith
<1>8. Only(U2, T2, k, a, With(r2, r2.rvalue, r2.rupdate, u))
  BY <1>4, <1>6, FieldWith
<1>9. /\ With(r1, r1.rvalue, u, r1.rerrors) = With(r, w, u, r.rerrors)
      /\ With(r2, r2.rvalue, r2.rupdate, u) = With(r, r.rvalue, w, u)
  BY SMT, <1>1 DEF With
<1>10. /\ [V EXCEPT ![k].regs[a].rvalue = w, ![k].regs[a].rupdate = u] = T1
       /\ [V EXCEPT ![k].regs[a].rupdate = w, ![k].regs[a].rerrors = u] = T2
  BY Zenon, <1>1, <1>4
<1> QED  BY Zenon, <1>5, <1>6, <1>7, <1>8, <1>9, <1>10

\* All registers of the first PLC are marked.
LEMMA MarkedAll ==
  ASSUME 1 \in DOMAIN PLCvec, PLCvec # <<>>, Object(PLCvec[1]), NEW e, Rerrors(e)
  PROVE  /\ DOMAIN PLCvec' = DOMAIN PLCvec
         /\ \A j \in DOMAIN PLCvec : j # 1 => PLCvec'[j] = PLCvec[j]
         /\ Object(PLCvec'[1])
         /\ DOMAIN PLCvec'[1].regs = DOMAIN PLCvec[1].regs
         /\ \A a \in DOMAIN PLCvec[1].regs :
              LET r == PLCvec[1].regs[a]
              IN PLCvec'[1].regs[a] = With(r, r.rvalue, r.rupdate, e)
<1>1. PICK D, R : /\ D = PLCvec[1]
                  /\ R = [a \in Addresses |-> [D.regs[a] EXCEPT !.rerrors = e]]
  OBVIOUS
<1>2. PICK E : E = [D EXCEPT !.regs = R]
  OBVIOUS
<1>3. PLCvec' = [PLCvec EXCEPT ![1] = E]
  BY Zenon, <1>1, <1>2 DEF Rerrors
<1>4. Addresses = DOMAIN D.regs
  BY Zenon, <1>1 DEF Addresses
<1>5. /\ DOMAIN PLCvec' = DOMAIN PLCvec /\ PLCvec'[1] = E
      /\ \A j \in DOMAIN PLCvec : j # 1 => PLCvec'[j] = PLCvec[j]
  BY Zenon, <1>3
<1>6. D = [name |-> D.name, folder |-> D.folder, lock |-> D.lock, regs |-> D.regs]
  BY <1>1 DEF Object
<1>7. E = [name |-> D.name, folder |-> D.folder, lock |-> D.lock, regs |-> R]
  BY SMT, <1>2, <1>6
<1>8. /\ E.regs = R /\ E.name = D.name /\ E.folder = D.folder /\ E.lock = D.lock
  BY SMT, <1>7
<1>9. ASSUME NEW a \in DOMAIN D.regs, NEW r, r = D.regs[a]
      PROVE  a \in Nat /\ R[a] = With(r, r.rvalue, r.rupdate, e)
  <2>1. RegRecord(r) /\ a \in Nat
    BY <1>1, <1>9 DEF Object
  <2>2. [r EXCEPT !.rerrors = e] = With(r, r.rvalue, r.rupdate, e)
    BY SMT, <2>1 DEF RegRecord, With
  <2>3. R[a] = [r EXCEPT !.rerrors = e]
    BY Zenon, <1>1, <1>4, <1>9
  <2> QED  BY <2>1, <2>2, <2>3
<1>10. DOMAIN R = DOMAIN D.regs
  BY Zenon, <1>1, <1>4
<1>11. Object(E)
  <2>1. E = [name |-> E.name, folder |-> E.folder, lock |-> E.lock, regs |-> E.regs]
    BY <1>7, <1>8
  <2>2. ASSUME NEW a \in DOMAIN E.regs PROVE a \in Nat /\ RegRecord(E.regs[a])
    <3>1. a \in DOMAIN D.regs
      BY <1>8, <1>10
    <3>2. PICK r : r = D.regs[a]
      OBVIOUS
    <3>3. a \in Nat /\ R[a] = With(r, r.rvalue, r.rupdate, e)
      BY <1>9, <3>1, <3>2
    <3>4. RegRecord(With(r, r.rvalue, r.rupdate, e))
      BY WithParts
    <3> QED  BY <1>8, <3>3, <3>4
  <2> QED  BY Zenon, <2>1, <2>2 DEF Object
<1>12. ASSUME NEW a \in DOMAIN D.regs, NEW r, r = D.regs[a]
       PROVE  E.regs[a] = With(r, r.rvalue, r.rupdate, e)
  BY <1>8, <1>9, <1>12
<1> QED  BY <1>1, <1>5, <1>8, <1>10, <1>11, <1>12

-----------------------------------------------------------------------------
(* What the polling thread leaves of the registers.                        *)

\* Words of registers have their bytes as they came.
Plain(w) == w = [kind |-> w.kind, at |-> w.at, of |-> w.of, flip |-> FALSE]

Objects == \A k \in DOMAIN PLCvec : Object(PLCvec[k])
Worded  == \A k \in DOMAIN PLCvec : \A a \in DOMAIN PLCvec[k].regs :
             Plain(PLCvec[k].regs[a].rvalue)

\* No register has been read, commanded or found in error before tasks_start;
\* none that is read-only is ever commanded, and the first PLC is the one that
\* is polled.
Untouched ==
  pc \in {"plc", "scada", "opc", "ready"} =>
    \A k \in DOMAIN PLCvec : \A a \in DOMAIN PLCvec[k].regs :
      LET r == PLCvec[k].regs[a] IN r.rvalue = NotYet /\ ~r.rupdate /\ ~r.rerrors
Uncommanded ==
  pc = "run" =>
    \A k \in DOMAIN PLCvec : \A a \in DOMAIN PLCvec[k].regs :
      ~PLCvec[k].regs[a].rmode => /\ ~PLCvec[k].regs[a].rupdate
                                  /\ k # 1 => PLCvec[k].regs[a].rvalue = NotYet

\* What the device may answer: the read-only registers are those of one image.
Readable == {a \in Addresses : ~PLCvec[1].regs[a].rmode}
Answer(buf) == /\ DOMAIN buf = Addresses
               /\ \A a \in Addresses : Plain(buf[a])
               /\ \E img \in Image : \A a \in Readable : buf[a] = Word(img, a)

\* The read-only registers hold one answer, or none has come.
Whole == \/ \A a \in Readable : PLCvec[1].regs[a].rvalue = NotYet
         \/ \E img \in Image : \A a \in Readable : PLCvec[1].regs[a].rvalue = Word(img, a)

\* Half-way through an answer those that are not left hold its words.
Halfway == \E img \in Image : \A a \in Readable :
             /\ poll.buf[a] = Word(img, a)
             /\ a \in poll.left \/ PLCvec[1].regs[a].rvalue = Word(img, a)

\* An error that has been cleared is not raised before the register's turn.
Polling ==
  pc = "run" =>
    /\ Answer(dev)
    /\ poll.op # "idle" => Addresses # {} /\ poll.left \subseteq Addresses
    /\ poll.op = "copy" => Answer(poll.buf) /\ Halfway
    /\ poll.op # "copy" \/ poll.left = Addresses => Whole
    /\ poll.op = "write" => \A a \in poll.left : ~PLCvec[1].regs[a].rerrors

Devices == Objects /\ Worded /\ Untouched /\ Uncommanded /\ Polling

-----------------------------------------------------------------------------
(* What the refresh task has in hand.                                      *)

\* No thread works but between tasks_start and the stop.
TaskRecord(t) ==
  /\ t.op \in {"idle", "read", "write"}
  /\ t = [op |-> t.op, n |-> t.n, i |-> t.i, val |-> t.val, bad |-> t.bad, torn |-> t.torn]
Resting ==
  /\ pc # "run" => poll.op = "idle" /\ task.op = "idle" /\ DOMAIN cmd = {}
  /\ poll.op = "idle" => poll = NoPoll
  /\ poll.op \in {"idle", "copy", "write"}
  /\ poll = [op |-> poll.op, buf |-> poll.buf, left |-> poll.left]
  /\ TaskRecord(task)

\* Above the words of its type the value of a number is zero.
Padded(e) ==
  e.prop.rbyteorder \in Orders =>
    \A i \in Place : i >= e.prop.rsize => e.Number.value[i] = Zero
EntryRecord(e) ==
  e = [kind |-> e.kind, rw |-> e.rw, prop |-> e.prop, ptr |-> e.ptr,
       var_errors |-> e.var_errors, Number |-> e.Number, path |-> e.path]
Entered(e) == EntryRecord(e) /\ e.prop \in Rows /\ Padded(e)
Entries    == \A n \in DOMAIN REGmap : Entered(REGmap[n])

\* The entry of a reference shows the register that its source names.
Referring ==
  \A x \in Refs : RefName(x) \in DOMAIN REGmap =>
    LET e == REGmap[RefName(x)]
        p == e.ptr[0]
    IN e.prop.rsize > 0 =>
         Exists(p) /\ RegOf(x[2].source) = [plc |-> PLCvec[p.plc].name, addr |-> p.addr]

\* Unless an answer was copied meanwhile, each word the task has read is that
\* of the register now, if this is not in error.
AtOnce(n, bad) == LET t == Entry(n).prop
                  IN t.rsize = 1 /\ (bad \/ t.rtype \in {"HEX", "BINARY"})
Gathered ==
  task.op = "read" =>
    /\ task.n \in DOMAIN REGmap /\ task.i \in 0 .. 4
    /\ task.val = [i \in Place |-> task.val[i]]
    /\ poll.op = "copy" /\ ~task.torn => poll.left = Addresses
    /\ ~task.torn /\ ~AtOnce(task.n, task.bad) =>
         \A i \in Words(task.n) : LET p == Entry(task.n).ptr[i] IN
           i >= task.i /\ p # Null /\ ~Reg(p).rerrors => task.val[i] = Reg(p).rvalue

\* A command under way is one that clients give; while it stands the task is
\* allowed to write all of its words.
Giving ==
  task.op = "write" =>
    /\ task.n \in DOMAIN cmd /\ task.i \in Nat /\ task.val \in Commands(task.n)
    /\ cmd[task.n] # Blank => /\ cmd[task.n] = task.val
                              /\ \A p \in Pointers(task.n) : Reg(p).rmode

\* The registers hold a command that stands, as far as it has got.
Reached(n, i) == task.op = "write" /\ task.n = n => i < task.i
Stands(n) ==
  cmd[n] # Blank =>
    /\ cmd[n] \in Commands(n)
    /\ \A i \in Words(n) : LET p == Entry(n).ptr[i] IN
         p # Null /\ Reached(n, i) => Reg(p).rvalue = cmd[n][i]
Standing   == \A n \in DOMAIN cmd : Stands(n)
Commanding == (pc = "run" => DOMAIN cmd = Watched) /\ Giving /\ Standing

InHand == Entries /\ Referring /\ Gathered /\ Commanding
RInv   == Resting /\ (NoTwins => Devices /\ InHand)

-----------------------------------------------------------------------------
(* What no step of the two changes.                                        *)

LEMMA FirstIn ==
  ASSUME NEW S, S \subseteq Nat, S # {}
  PROVE  First(S) \in S
<1>1. \E x \in S : \A y \in S : <<y, x>> \notin OpToRel(<, Nat)
  BY NatLessThanWellFounded, WFMin
<1>2. PICK x \in S : \A y \in S : <<y, x>> \notin OpToRel(<, Nat)
  BY <1>1
<1>3. ASSUME NEW y \in S PROVE x <= y
  <2>1. ~(y < x)
    BY <1>2, <1>3 DEF OpToRel
  <2> QED  BY SMT, <2>1
<1> QED  BY <1>3 DEF First

LEMMA PlacesKept ==
  ASSUME Poller \/ Refresher
  PROVE  file' = file /\ pc' = pc
BY Zenon DEF Poller, PollAnswered, PollFails, CopyReg, CopyEnds, WriteReg, WriteEnds,
   Refresher, ReadBegins, WriteBegins, ReadWord, ReadEnds, WriteWord, WriteDone, TakeOpc,
   loaded, config

LEMMA TablesKept ==
  ASSUME Shape, Poller \/ Refresher
  PROVE  /\ file' = file /\ pc' = pc /\ buffer' = buffer /\ NoTwins' = NoTwins
         /\ DOMAIN PLCvec' = DOMAIN PLCvec
         /\ \A k \in DOMAIN PLCvec :
              /\ PLCvec'[k].name = PLCvec[k].name
              /\ DOMAIN PLCvec'[k].regs = DOMAIN PLCvec[k].regs
              /\ \A a \in DOMAIN PLCvec[k].regs :
                   PLCvec'[k].regs[a].rmode = PLCvec[k].regs[a].rmode
         /\ DOMAIN REGmap' = DOMAIN REGmap
         /\ \A n \in DOMAIN REGmap :
              /\ REGmap'[n].kind = REGmap[n].kind /\ REGmap'[n].prop = REGmap[n].prop
              /\ REGmap'[n].ptr = REGmap[n].ptr /\ REGmap'[n].path = REGmap[n].path
<1>1. SameVec(PLCvec, PLCvec') /\ buffer' = buffer
  BY RunKeepsVec DEF Shape, Vector
<1>2. SameEntries(REGmap, REGmap')
  BY RunKeepsEntries
<1>3. file' = file /\ pc' = pc /\ NoTwins' = NoTwins
  BY PlacesKept, SameFile
<1>4. /\ DOMAIN PLCvec' = DOMAIN PLCvec
      /\ \A k \in DOMAIN PLCvec :
           /\ PLCvec'[k].name = PLCvec[k].name
           /\ DOMAIN PLCvec'[k].regs = DOMAIN PLCvec[k].regs
           /\ \A a \in DOMAIN PLCvec[k].regs :
                PLCvec'[k].regs[a].rmode = PLCvec[k].regs[a].rmode
  BY Zenon, <1>1 DEF SameVec, SameTable, SameReg
<1>5. /\ DOMAIN REGmap' = DOMAIN REGmap
      /\ \A n \in DOMAIN REGmap :
           /\ REGmap'[n].kind = REGmap[n].kind /\ REGmap'[n].prop = REGmap[n].prop
           /\ REGmap'[n].ptr = REGmap[n].ptr /\ REGmap'[n].path = REGmap[n].path
  BY Zenon, <1>2 DEF SameEntries, SameEntry
<1> QED  BY <1>1, <1>3, <1>4, <1>5

\* Whether there is a first PLC.
LEMMA FirstOne ==
  ASSUME NEW V, IsSeq(V)
  PROVE  V # <<>> <=> 1 \in DOMAIN V
<1>1. Len(V) \in Nat /\ DOMAIN V = 1 .. Len(V)
  BY SeqParts
<1>2. Len(V) = 0 => V = <<>>
  BY EmptySeq DEF IsSeq
<1>3. 1 \in DOMAIN V => V # <<>>
  BY EmptyIsSeq
<1> QED  BY SMT, <1>1, <1>2, <1>3

LEMMA FirstPlc ==
  ASSUME Shape
  PROVE  /\ Addresses # {} => PLCvec # <<>> /\ 1 \in DOMAIN PLCvec
         /\ 1 \in DOMAIN PLCvec => PLCvec # <<>> /\ Addresses = DOMAIN PLCvec[1].regs
         /\ 1 \notin DOMAIN PLCvec => Addresses = {}
BY FirstOne DEF Shape, Vector, Addresses

LEMMA SetsKept ==
  ASSUME Shape, Shape', Poller \/ Refresher
  PROVE  /\ Addresses' = Addresses /\ Readable' = Readable /\ Image' = Image
         /\ Watched' = Watched
         /\ \A n \in DOMAIN REGmap : /\ Words(n)' = Words(n) /\ Pointers(n)' = Pointers(n)
                                     /\ Commands(n)' = Commands(n)
         /\ \A p : Exists(p)' <=> Exists(p)
<1>1. /\ file' = file /\ buffer' = buffer
      /\ DOMAIN PLCvec' = DOMAIN PLCvec
      /\ \A k \in DOMAIN PLCvec :
           /\ DOMAIN PLCvec'[k].regs = DOMAIN PLCvec[k].regs
           /\ \A a \in DOMAIN PLCvec[k].regs :
                PLCvec'[k].regs[a].rmode = PLCvec[k].regs[a].rmode
      /\ DOMAIN REGmap' = DOMAIN REGmap
      /\ \A n \in DOMAIN REGmap :
           REGmap'[n].prop = REGmap[n].prop /\ REGmap'[n].ptr = REGmap[n].ptr
  BY TablesKept
<1>2. Addresses' = Addresses
  <2>1. IsSeq(PLCvec) /\ IsSeq(PLCvec')
    BY DEF Shape, Vector
  <2>2. PLCvec = <<>> <=> PLCvec' = <<>>
    BY <1>1, <2>1, FirstOne
  <2>3. PLCvec # <<>> => 1 \in DOMAIN PLCvec
    BY <2>1, FirstOne
  <2> QED  BY Zenon, <1>1, <2>2, <2>3 DEF Addresses
<1>3. Readable' = Readable
  <2>1. \A a \in Addresses : PLCvec'[1].regs[a].rmode = PLCvec[1].regs[a].rmode
    BY Zenon, <1>1, FirstPlc
  <2> QED  BY <1>2, <2>1 DEF Readable
<1>4. \A n \in DOMAIN REGmap : /\ Words(n)' = Words(n) /\ Pointers(n)' = Pointers(n)
                               /\ Commands(n)' = Commands(n)
  BY <1>1 DEF Words, Pointers, Commands, Entry
<1>5. Image' = Image /\ Watched' = Watched
  BY <1>1 DEF Image, Watched
<1>6. \A p : Exists(p)' <=> Exists(p)
  BY Zenon, <1>1 DEF Exists
<1> QED  BY <1>2, <1>3, <1>4, <1>5, <1>6

\* What a pointer of an entry is.
LEMMA PointerForm ==
  ASSUME Shape, NoTwins, Made, Led, NEW n \in DOMAIN REGmap, NEW i \in Place,
         NEW p, p = REGmap[n].ptr[i], p # Null
  PROVE  /\ Exists(p) /\ p = [buf |-> buffer, plc |-> p.plc, addr |-> p.addr]
         /\ i < REGmap[n].prop.rsize /\ p = To(REGmap[n].ptr[0], i)
         /\ Exists(REGmap[n].ptr[0]) /\ REGmap[n].ptr[0].addr \in Nat
         /\ \A j \in Place : REGmap[n].ptr[j] = p => j = i
<1> DEFINE e == REGmap[n]
           q == e.ptr[0]
<1>1. EntryRuns(e)
  BY DEF Led
<1>2. /\ Exists(q)
      /\ \A j \in Place : IF j < e.prop.rsize THEN e.ptr[j] = To(q, j) /\ Exists(To(q, j))
                                              ELSE e.ptr[j] = Null
  BY Zenon, <1>1 DEF EntryRuns
<1>3. i < e.prop.rsize /\ p = To(q, i) /\ Exists(p)
  BY Zenon, <1>2
<1>4. q.addr \in Nat
  BY <1>2, Pointed
<1>5. p.buf = buffer
  BY <1>3 DEF Exists
<1>6. p = [buf |-> q.buf, plc |-> q.plc, addr |-> q.addr + i]
  BY <1>3 DEF To
<1>7. p = [buf |-> buffer, plc |-> p.plc, addr |-> p.addr]
  BY SMT, <1>5, <1>6
<1>8. ASSUME NEW j \in Place, e.ptr[j] = p PROVE j = i
  <2>1. e.ptr[j] = To(q, j)
    BY Zenon, <1>2, <1>8
  <2>2. p = [buf |-> q.buf, plc |-> q.plc, addr |-> q.addr + j]
    BY <1>8, <2>1 DEF To
  <2>3. q.addr + j = q.addr + i
    BY SMT, <1>6, <2>2
  <2> QED  BY SMT, <1>4, <2>3 DEF Place
<1> QED  BY <1>2, <1>3, <1>4, <1>7, <1>8

\* Referring speaks of nothing the tasks change.
LEMMA ReferringKept ==
  ASSUME Shape, Shape', Poller \/ Refresher, Referring
  PROVE  Referring'
<1>1. /\ file' = file /\ buffer' = buffer
      /\ DOMAIN PLCvec' = DOMAIN PLCvec
      /\ \A k \in DOMAIN PLCvec : PLCvec'[k].name = PLCvec[k].name
      /\ DOMAIN REGmap' = DOMAIN REGmap
      /\ \A n \in DOMAIN REGmap :
           REGmap'[n].prop = REGmap[n].prop /\ REGmap'[n].ptr = REGmap[n].ptr
  BY Zenon, TablesKept
<1>2. Taken' = Taken /\ PlcNames' = PlcNames /\ \A n : RegOf(n)' = RegOf(n)
  BY Zenon, <1>1, SameTaken, SameFile
<1>3. Refs' = Refs
  BY <1>2 DEF Refs
<1>4. \A p : Exists(p)' <=> Exists(p)
  BY Zenon, SetsKept
<1>5. ASSUME NEW x \in Refs, RefName(x) \in DOMAIN REGmap,
             NEW e, e = REGmap[RefName(x)], NEW p, p = e.ptr[0],
             e.prop.rsize > 0
      PROVE  /\ Exists(p)'
             /\ RegOf(x[2].source)' = [plc |-> PLCvec'[p.plc].name, addr |-> p.addr]
  <2>1. Exists(p) /\ RegOf(x[2].source) = [plc |-> PLCvec[p.plc].name, addr |-> p.addr]
    BY <1>5 DEF Referring
  <2>2. p.plc \in DOMAIN PLCvec
    BY <2>1 DEF Exists
  <2> QED  BY Zenon, <1>1, <1>2, <1>4, <2>1, <2>2
<1>6. ASSUME NEW x \in Refs', RefName(x) \in DOMAIN REGmap',
             NEW e, e = REGmap'[RefName(x)], NEW p, p = e.ptr[0], e.prop.rsize > 0
      PROVE  /\ Exists(p)'
             /\ RegOf(x[2].source)' = [plc |-> PLCvec'[p.plc].name, addr |-> p.addr]
  <2>1. x \in Refs /\ RefName(x) \in DOMAIN REGmap
    BY <1>1, <1>3, <1>6
  <2>2. e.prop = REGmap[RefName(x)].prop /\ e.ptr = REGmap[RefName(x)].ptr
    BY <1>1, <1>6, <2>1
  <2> QED  BY Zenon, <1>5, <1>6, <2>1, <2>2
<1> QED  BY Zenon, <1>6 DEF Referring

-----------------------------------------------------------------------------
(* The registers, step by step.                                            *)

LEMMA PlainWord == \A k, a : Plain(Word(k, a))
BY SMT DEF Plain, Word

\* A register that is changed stays what registers are.
LEMMA OnlyKeeps ==
  ASSUME Objects, Worded, NEW k \in DOMAIN PLCvec, NEW a \in DOMAIN PLCvec[k].regs, NEW s,
         Only(PLCvec, PLCvec', k, a, s), RegRecord(s), Plain(s.rvalue)
  PROVE  Objects' /\ Worded'
<1>1. Object(PLCvec[k])
  BY DEF Objects
<1>2. Object(PLCvec'[k])
  BY Zenon, <1>1, OnlyTwice
<1>3. /\ DOMAIN PLCvec' = DOMAIN PLCvec /\ DOMAIN PLCvec'[k].regs = DOMAIN PLCvec[k].regs
      /\ \A j \in DOMAIN PLCvec : j # k => PLCvec'[j] = PLCvec[j]
      /\ \A b \in DOMAIN PLCvec[k].regs :
           PLCvec'[k].regs[b] = IF b = a THEN s ELSE PLCvec[k].regs[b]
  BY Zenon DEF Only
<1>4. Objects'
  <2>1. ASSUME NEW j \in DOMAIN PLCvec' PROVE Object(PLCvec'[j])
    BY Zenon, <1>2, <1>3 DEF Objects
  <2> QED  BY <2>1 DEF Objects
<1>5. Worded'
  <2>1. ASSUME NEW j \in DOMAIN PLCvec', NEW b \in DOMAIN PLCvec'[j].regs
        PROVE  Plain(PLCvec'[j].regs[b].rvalue)
    BY Zenon, <1>3 DEF Worded
  <2> QED  BY Zenon, <2>1 DEF Worded
<1> QED  BY <1>4, <1>5

LEMMA UncommandedOnly ==
  ASSUME Uncommanded, pc' = pc, NEW k \in DOMAIN PLCvec, NEW a \in DOMAIN PLCvec[k].regs,
         NEW s, Only(PLCvec, PLCvec', k, a, s),
         ~s.rmode => ~s.rupdate /\ (k # 1 => s.rvalue = NotYet)
  PROVE  Uncommanded'
<1>1. /\ DOMAIN PLCvec' = DOMAIN PLCvec /\ DOMAIN PLCvec'[k].regs = DOMAIN PLCvec[k].regs
      /\ \A j \in DOMAIN PLCvec : j # k => PLCvec'[j] = PLCvec[j]
      /\ \A b \in DOMAIN PLCvec[k].regs :
           PLCvec'[k].regs[b] = IF b = a THEN s ELSE PLCvec[k].regs[b]
  BY Zenon DEF Only
<1>2. ASSUME pc = "run", NEW j \in DOMAIN PLCvec', NEW b \in DOMAIN PLCvec'[j].regs,
             NEW q, q = PLCvec'[j].regs[b], ~q.rmode
      PROVE  ~q.rupdate /\ (j # 1 => q.rvalue = NotYet)
  <2>1. CASE j = k /\ b = a
    BY Zenon, <1>1, <1>2, <2>1
  <2>2. CASE ~(j = k /\ b = a)
    <3>1. j \in DOMAIN PLCvec /\ b \in DOMAIN PLCvec[j].regs /\ q = PLCvec[j].regs[b]
      BY Zenon, <1>1, <1>2, <2>2
    <3> QED  BY Zenon, <1>2, <3>1 DEF Uncommanded
  <2> QED  BY <2>1, <2>2
<1> QED  BY Zenon, <1>2 DEF Uncommanded

\* All registers of the first PLC are marked, or none.
LEMMA MarksKeep ==
  ASSUME Shape, Objects, Worded, Uncommanded, pc' = pc, Addresses # {},
         NEW e, Rerrors(e)
  PROVE  /\ Objects' /\ Worded' /\ Uncommanded'
         /\ \A k \in DOMAIN PLCvec : \A a \in DOMAIN PLCvec[k].regs :
              PLCvec'[k].regs[a].rvalue = PLCvec[k].regs[a].rvalue
         /\ \A a \in Addresses : PLCvec'[1].regs[a].rerrors = e
         /\ \A k \in DOMAIN PLCvec : k # 1 => PLCvec'[k] = PLCvec[k]
<1>1. 1 \in DOMAIN PLCvec /\ PLCvec # <<>> /\ Addresses = DOMAIN PLCvec[1].regs
  BY FirstPlc
<1>2. Object(PLCvec[1])
  BY <1>1 DEF Objects
<1>3. /\ DOMAIN PLCvec' = DOMAIN PLCvec
      /\ \A j \in DOMAIN PLCvec : j # 1 => PLCvec'[j] = PLCvec[j]
      /\ Object(PLCvec'[1])
      /\ DOMAIN PLCvec'[1].regs = DOMAIN PLCvec[1].regs
      /\ \A a \in DOMAIN PLCvec[1].regs :
           LET r == PLCvec[1].regs[a]
           IN PLCvec'[1].regs[a] = With(r, r.rvalue, r.rupdate, e)
  BY <1>1, <1>2, MarkedAll
<1>4. ASSUME NEW a \in DOMAIN PLCvec[1].regs, NEW r, r = PLCvec[1].regs[a],
             NEW s, s = PLCvec'[1].regs[a]
      PROVE  s.rvalue = r.rvalue /\ s.rupdate = r.rupdate /\ s.rmode = r.rmode
             /\ s.rerrors = e
  <2>1. s = With(r, r.rvalue, r.rupdate, e)
    BY <1>3, <1>4
  <2> QED  BY <2>1, WithParts
<1>5. Objects'
  <2>1. ASSUME NEW j \in DOMAIN PLCvec' PROVE Object(PLCvec'[j])
    BY Zenon, <1>3 DEF Objects
  <2> QED  BY <2>1 DEF Objects
<1>6. ASSUME NEW j \in DOMAIN PLCvec', NEW b \in DOMAIN PLCvec'[j].regs
      PROVE  /\ j \in DOMAIN PLCvec /\ b \in DOMAIN PLCvec[j].regs
             /\ PLCvec'[j].regs[b].rvalue = PLCvec[j].regs[b].rvalue
             /\ PLCvec'[j].regs[b].rupdate = PLCvec[j].regs[b].rupdate
             /\ PLCvec'[j].regs[b].rmode = PLCvec[j].regs[b].rmode
  <2>1. CASE j = 1
    BY <1>3, <1>4, <1>6, <2>1
  <2>2. CASE j # 1
    BY Zenon, <1>3, <1>6, <2>2
  <2> QED  BY <2>1, <2>2
<1>7. Worded'
  <2>1. ASSUME NEW j \in DOMAIN PLCvec', NEW b \in DOMAIN PLCvec'[j].regs
        PROVE  Plain(PLCvec'[j].regs[b].rvalue)
    <3>1. /\ j \in DOMAIN PLCvec /\ b \in DOMAIN PLCvec[j].regs
          /\ PLCvec'[j].regs[b].rvalue = PLCvec[j].regs[b].rvalue
      BY Zenon, <1>6
    <3>2. Plain(PLCvec[j].regs[b].rvalue)
      BY Zenon, <3>1 DEF Worded
    <3> QED  BY Zenon, <3>1, <3>2
  <2> QED  BY Zenon, <2>1 DEF Worded
<1>8. Uncommanded'
  <2>1. ASSUME pc = "run", NEW j \in DOMAIN PLCvec', NEW b \in DOMAIN PLCvec'[j].regs,
               NEW q, q = PLCvec'[j].regs[b], ~q.rmode
        PROVE  ~q.rupdate /\ (j # 1 => q.rvalue = NotYet)
    <3>1. PICK r : r = PLCvec[j].regs[b]
      OBVIOUS
    <3>2. /\ j \in DOMAIN PLCvec /\ b \in DOMAIN PLCvec[j].regs
          /\ q.rvalue = r.rvalue /\ q.rupdate = r.rupdate /\ q.rmode = r.rmode
      BY Zenon, <1>6, <2>1, <3>1
    <3>3. ~r.rmode => ~r.rupdate /\ (j # 1 => r.rvalue = NotYet)
      BY Zenon, <2>1, <3>1, <3>2 DEF Uncommanded
    <3> QED  BY <2>1, <3>2, <3>3
  <2> QED  BY Zenon, <2>1 DEF Uncommanded
<1>9. \A k \in DOMAIN PLCvec : \A a \in DOMAIN PLCvec[k].regs :
        PLCvec'[k].regs[a].rvalue = PLCvec[k].regs[a].rvalue
  <2>1. ASSUME NEW k \in DOMAIN PLCvec, NEW a \in DOMAIN PLCvec[k].regs
        PROVE  k \in DOMAIN PLCvec' /\ a \in DOMAIN PLCvec'[k].regs
    <3>1. CASE k = 1
      BY Zenon, <1>3, <2>1, <3>1
    <3>2. CASE k # 1
      BY Zenon, <1>3, <2>1, <3>2
    <3> QED  BY <3>1, <3>2
  <2> QED  BY Zenon, <1>6, <2>1
<1> QED  BY Zenon, <1>1, <1>3, <1>4, <1>5, <1>7, <1>8, <1>9

\* What CopyReg does.
LEMMA CopyEffect ==
  ASSUME Shape, Devices, Resting, CopyReg
  PROVE  /\ pc = "run" /\ 1 \in DOMAIN PLCvec /\ Addresses = DOMAIN PLCvec[1].regs
         /\ \E a \in poll.left : \E r, s :
              /\ a = First(poll.left) /\ a \in Addresses /\ r = PLCvec[1].regs[a]
              /\ s = With(r, IF r.rupdate THEN r.rvalue ELSE poll.buf[a], r.rupdate, r.rerrors)
              /\ s.rvalue = Copied(a) /\ Reg(At(a)) = r
              /\ Only(PLCvec, PLCvec', 1, a, s)
              /\ poll' = [op |-> "copy", buf |-> poll.buf, left |-> poll.left \ {a}]
              /\ Stored(At(a), s.rvalue)
<1>1. poll.op = "copy" /\ poll.left # {}
  BY DEF CopyReg
<1>2. pc = "run"
  BY SMT, <1>1 DEF Resting
<1>3. /\ poll = [op |-> poll.op, buf |-> poll.buf, left |-> poll.left]
      /\ Addresses # {} /\ poll.left \subseteq Addresses
  BY SMT, <1>1, <1>2 DEF Devices, Polling, Resting
<1>4. 1 \in DOMAIN PLCvec /\ Addresses = DOMAIN PLCvec[1].regs /\ Object(PLCvec[1])
  BY <1>3, FirstPlc DEF Devices, Objects
<1>5. poll.left \subseteq Nat
  BY <1>3, <1>4 DEF Object
<1>6. PICK a \in poll.left : a = First(poll.left)
  BY <1>1, <1>5, FirstIn
<1>7. PICK r, w : r = PLCvec[1].regs[a] /\ w = Copied(a)
  OBVIOUS
<1>8. At(a).plc = 1 /\ At(a).addr = a
  BY SMT DEF At
<1>9. Reg(At(a)) = r
  BY <1>7, <1>8 DEF Reg
<1>10. w = IF r.rupdate THEN r.rvalue ELSE poll.buf[a]
  BY <1>7, <1>9 DEF Copied
<1>11. PLCvec' = [PLCvec EXCEPT ![1].regs[a].rvalue = w] /\ Stored(At(a), w)
       /\ poll' = Rest
  BY Zenon, <1>6, <1>7 DEF CopyReg
<1>12. PICK s : s = With(r, w, r.rupdate, r.rerrors)
  OBVIOUS
<1>13. Only(PLCvec, PLCvec', 1, a, s) /\ s.rvalue = w
  <2>1. a \in DOMAIN PLCvec[1].regs
    BY <1>3, <1>4
  <2>2. Only(PLCvec, [PLCvec EXCEPT ![1].regs[a].rvalue = w], 1, a,
             With(r, w, r.rupdate, r.rerrors))
    BY Zenon, <1>4, <1>7, <2>1, FieldWith
  <2>3. s.rvalue = w
    BY SMT, <1>12 DEF With
  <2> QED  BY Zenon, <1>11, <1>12, <2>2, <2>3
<1>14. poll' = [op |-> "copy", buf |-> poll.buf, left |-> poll.left \ {a}]
  <2>1. poll' = [poll EXCEPT !.left = poll.left \ {a}]
    BY Zenon, <1>6, <1>11 DEF Rest
  <2> QED  BY SMT, <1>1, <1>3, <2>1
<1>15. a \in Addresses /\ s = With(r, IF r.rupdate THEN r.rvalue ELSE poll.buf[a], r.rupdate, r.rerrors)
  BY <1>3, <1>10, <1>12
<1> QED  BY Zenon, <1>2, <1>4, <1>6, <1>7, <1>9, <1>11, <1>13, <1>14, <1>15

\* What WriteReg does.
LEMMA WriteEffect ==
  ASSUME Shape, Devices, Resting, NEW ok \in BOOLEAN, WriteReg(ok)
  PROVE  /\ pc = "run" /\ 1 \in DOMAIN PLCvec /\ Addresses = DOMAIN PLCvec[1].regs
         /\ \E a \in poll.left : \E r, s :
              /\ a \in Addresses /\ r = PLCvec[1].regs[a]
              /\ s = With(r, r.rvalue, ~ok, ~ok)
              /\ IF r.rupdate THEN /\ Only(PLCvec, PLCvec', 1, a, s)
                                   /\ dev' = IF ok THEN [dev EXCEPT ![a] = r.rvalue] ELSE dev
                              ELSE UNCHANGED <<dev, PLCvec>>
              /\ ~r.rerrors
              /\ poll' = [op |-> "write", buf |-> poll.buf, left |-> poll.left \ {a}]
<1>1. poll.op = "write" /\ poll.left # {}
  BY DEF WriteReg
<1>2. pc = "run"
  BY SMT, <1>1 DEF Resting
<1>3. /\ poll = [op |-> poll.op, buf |-> poll.buf, left |-> poll.left]
      /\ Addresses # {} /\ poll.left \subseteq Addresses
      /\ \A a \in poll.left : ~PLCvec[1].regs[a].rerrors
  BY SMT, <1>1, <1>2 DEF Devices, Polling, Resting
<1>4. 1 \in DOMAIN PLCvec /\ Addresses = DOMAIN PLCvec[1].regs /\ Object(PLCvec[1])
  BY <1>3, FirstPlc DEF Devices, Objects
<1>5. poll.left \subseteq Nat
  BY <1>3, <1>4 DEF Object
<1>6. PICK a \in poll.left : a = First(poll.left)
  BY <1>1, <1>5, FirstIn
<1>7. PICK r, s : r = PLCvec[1].regs[a] /\ s = With(r, r.rvalue, ~ok, ~ok)
  OBVIOUS
<1>8. At(a).plc = 1 /\ At(a).addr = a
  BY SMT DEF At
<1>9. Reg(At(a)) = r
  BY <1>7, <1>8 DEF Reg
<1>10. poll' = [op |-> "write", buf |-> poll.buf, left |-> poll.left \ {a}]
  <2>1. poll' = [poll EXCEPT !.left = poll.left \ {a}]
    BY Zenon, <1>6 DEF Rest, WriteReg
  <2> QED  BY SMT, <1>1, <1>3, <2>1
<1>11. IF r.rupdate THEN /\ Only(PLCvec, PLCvec', 1, a, s)
                         /\ dev' = IF ok THEN [dev EXCEPT ![a] = r.rvalue] ELSE dev
                    ELSE UNCHANGED <<dev, PLCvec>>
  <2>1. CASE r.rupdate
    <3>1. /\ dev' = IF ok THEN [dev EXCEPT ![a] = r.rvalue] ELSE dev
          /\ PLCvec' = [PLCvec EXCEPT ![1].regs[a].rupdate = ~ok, ![1].regs[a].rerrors = ~ok]
      BY Zenon, <1>6, <1>9, <2>1 DEF WriteReg
    <3>2. PICK u : u = ~ok
      OBVIOUS
    <3>3. a \in DOMAIN PLCvec[1].regs
      BY <1>3, <1>4
    <3>4. Only(PLCvec, [PLCvec EXCEPT ![1].regs[a].rupdate = u, ![1].regs[a].rerrors = u],
               1, a, With(r, r.rvalue, u, u))
      BY Zenon, <1>4, <1>7, <3>3, FieldsWith
    <3>5. Only(PLCvec, PLCvec', 1, a, s)
      BY Zenon, <1>7, <3>1, <3>2, <3>4
    <3> QED  BY Zenon, <2>1, <3>1, <3>5
  <2>2. CASE ~r.rupdate
    BY Zenon, <1>6, <1>9, <2>2 DEF WriteReg
  <2> QED  BY <2>1, <2>2
<1> QED  BY Zenon, <1>2, <1>3, <1>4, <1>7, <1>10, <1>11

\* What the rows of the table have.
LEMMA RowParts ==
  ASSUME NEW t, t \in Rows
  PROVE  /\ t.rsize \in {0, 1, 2, 4}
         /\ t.rbyteorder \in Orders => t.rsize \in {2, 4}
         /\ t.rbyteorder = "SNGL" => t.rsize = 1 /\ t.rtype \in {"UINT16", "INT16"}
         /\ t.rbyteorder \in {"F10", "F100"} => t.rsize = 1 /\ t.rtype = t.rbyteorder
         /\ t.rtype \in {"HEX", "BINARY"} => t.rbyteorder = t.rtype
         /\ t.rsize = 1 => t.rbyteorder \in {"SNGL", "F10", "F100", "HEX", "BINARY"}
         /\ t.rbyteorder \in {"HEX", "BINARY"} => t.rsize = 1 /\ t.rtype = t.rbyteorder
         /\ t.rsize \in {2, 4} => t.rbyteorder \in Orders
<1>1. \A n, u, z, o : /\ Row(n, u, z, o).rsize = z /\ Row(n, u, z, o).rtype = u
                      /\ Row(n, u, z, o).rbyteorder = o
  BY DEF Row
<1>2. ASSUME NEW u, NEW z, NEW be, NEW bs, NEW le, NEW ls, t \in Wide(u, z, be, bs, le, ls)
      PROVE  t.rsize = z /\ t.rtype = u /\ t.rbyteorder \in Orders
  BY <1>1, <1>2 DEF Wide, Orders
<1> QED  BY <1>1, <1>2 DEF Rows, Orders

\* What WriteWord does.
LEMMA CommandEffect ==
  ASSUME Shape, NoTwins, Made, Led, Objects, Entries, task.n \in DOMAIN REGmap, WriteWord
  PROVE  /\ task.op = "write" /\ task.i \in Words(task.n)
         /\ \E p, w, r, s :
              /\ p = Entry(task.n).ptr[task.i] /\ w = task.val[task.i]
              /\ \/ /\ p # Null /\ Exists(p) /\ r = Reg(p) /\ r.rmode /\ r.rvalue # w
                    /\ s = With(r, w, TRUE, r.rerrors)
                    /\ Only(PLCvec, PLCvec', p.plc, p.addr, s)
                    /\ Overruled(p, task.n)
                 \/ /\ p = Null \/ ~Reg(p).rmode \/ Reg(p).rvalue = w
                    /\ UNCHANGED <<PLCvec, cmd>>
         /\ task' = [task EXCEPT !.i = task.i + 1]
<1>1. task.op = "write" /\ task.i \in Words(task.n) /\ task' = [task EXCEPT !.i = task.i + 1]
  BY Zenon DEF WriteWord
<1>2. PICK p, w : p = Target(task.n, task.i) /\ w = task.val[task.i]
  OBVIOUS
<1>3. p = Entry(task.n).ptr[task.i]
  BY <1>2 DEF Target
<1>4. CASE p # Null /\ Reg(p).rmode /\ Reg(p).rvalue # w
  <2>1. /\ PLCvec' = [PLCvec EXCEPT ![p.plc].regs[p.addr].rvalue = w,
                                    ![p.plc].regs[p.addr].rupdate = TRUE]
        /\ Overruled(p, task.n)
    BY Zenon, <1>2, <1>4 DEF WriteWord
  <2>2. Exists(p)
    <3>1. task.i \in Place
      <4>1. REGmap[task.n].prop \in Rows
        BY DEF Entries, Entered
      <4>2. REGmap[task.n].prop.rsize \in {0, 1, 2, 4}
        BY <4>1, RowParts
      <4> QED  BY SMT, <1>1, <4>2 DEF Words, Entry, Place
    <3> QED  BY <1>3, <1>4, <3>1, PointerForm DEF Entry
  <2>3. p.plc \in DOMAIN PLCvec /\ p.addr \in DOMAIN PLCvec[p.plc].regs
    BY <2>2 DEF Exists
  <2>4. PICK r, s : r = Reg(p) /\ s = With(r, w, TRUE, r.rerrors)
    OBVIOUS
  <2>5. r = PLCvec[p.plc].regs[p.addr] /\ Object(PLCvec[p.plc])
    BY <2>3, <2>4 DEF Reg, Objects
  <2>6. Only(PLCvec, PLCvec', p.plc, p.addr, s)
    <3>1. PICK k, a, u : k = p.plc /\ a = p.addr /\ u = TRUE
      OBVIOUS
    <3>2. k \in DOMAIN PLCvec /\ Object(PLCvec[k]) /\ a \in DOMAIN PLCvec[k].regs
          /\ r = PLCvec[k].regs[a] /\ s = With(r, w, u, r.rerrors)
      BY Zenon, <2>3, <2>4, <2>5, <3>1
    <3>3. PLCvec' = [PLCvec EXCEPT ![k].regs[a].rvalue = w, ![k].regs[a].rupdate = u]
      BY Zenon, <2>1, <3>1
    <3>4. Only(PLCvec, [PLCvec EXCEPT ![k].regs[a].rvalue = w, ![k].regs[a].rupdate = u],
               k, a, With(r, w, u, r.rerrors))
      BY Zenon, <3>2, FieldsWith
    <3> QED  BY Zenon, <3>1, <3>2, <3>3, <3>4
  <2>7. r.rmode /\ r.rvalue # w
    BY <1>4, <2>4
  <2> QED  BY Zenon, <1>1, <1>2, <1>3, <1>4, <2>1, <2>2, <2>4, <2>6, <2>7
<1>5. CASE ~(p # Null /\ Reg(p).rmode /\ Reg(p).rvalue # w)
  <2>1. UNCHANGED <<PLCvec, cmd>>
    BY Zenon, <1>2, <1>5 DEF WriteWord
  <2> QED  BY Zenon, <1>1, <1>2, <1>3, <1>5, <2>1
<1> QED  BY <1>4, <1>5

-----------------------------------------------------------------------------
(* The polling thread keeps what is said of the registers and the device.  *)

\* What stays true of the words of the first PLC.
LEMMA WholeKept ==
  ASSUME Readable' = Readable, Image' = Image, Whole,
         \A a \in Readable : PLCvec'[1].regs[a].rvalue = PLCvec[1].regs[a].rvalue
  PROVE  Whole'
<1>1. CASE \A a \in Readable : PLCvec[1].regs[a].rvalue = NotYet
  BY Zenon, <1>1 DEF Whole
<1>2. CASE \E img \in Image : \A a \in Readable : PLCvec[1].regs[a].rvalue = Word(img, a)
  BY Zenon, <1>2 DEF Whole
<1> QED  BY Zenon, <1>1, <1>2 DEF Whole

LEMMA AnswerKept ==
  ASSUME Addresses' = Addresses, Readable' = Readable, Image' = Image,
         NEW buf, Answer(buf)
  PROVE  /\ dev' = buf => Answer(dev)'
         /\ poll'.buf = buf => Answer(poll.buf)'
<1>1. ASSUME dev' = buf PROVE Answer(dev)'
  BY <1>1 DEF Answer, Plain
<1>2. ASSUME poll'.buf = buf PROVE Answer(poll.buf)'
  BY <1>2 DEF Answer, Plain
<1> QED  BY <1>1, <1>2

LEMMA Running ==
  ASSUME Poller, Resting
  PROVE  pc = "run" /\ pc' = pc
<1>1. pc' = pc
  BY PlacesKept
<1>2. pc = "run"
  <2>1. pc = "run" \/ poll.op \in {"copy", "write"}
    BY Zenon DEF Poller, PollAnswered, PollFails, CopyReg, CopyEnds, WriteReg, WriteEnds
  <2> QED  BY <2>1 DEF Resting
<1> QED  BY <1>1, <1>2

LEMMA AnswerIsOne ==
  ASSUME NEW img \in Image
  PROVE  Answer(Device(img))
<1>1. /\ DOMAIN Device(img) = Addresses
      /\ \A a \in Addresses : Device(img)[a] = Word(img, a)
  BY DEF Device
<1>2. \A a \in Addresses : Plain(Device(img)[a])
  BY <1>1, PlainWord
<1>3. \A a \in Readable : Device(img)[a] = Word(img, a)
  BY <1>1 DEF Readable
<1> QED  BY Zenon, <1>1, <1>2, <1>3 DEF Answer

LEMMA PollAnsweredKeeps ==
  ASSUME Shape, Shape', Devices, Resting, Poller, NEW now, PollAnswered(now),
         now \in {dev} \cup {Device(img) : img \in Image}
  PROVE  Devices'
<1>1. pc = "run" /\ pc' = pc
  BY Running
<1>2. /\ Addresses' = Addresses /\ Readable' = Readable /\ Image' = Image
  BY SetsKept
<1>3. /\ poll.op = "idle" /\ Addresses # {} /\ dev' = now /\ PLCvec' = PLCvec
      /\ poll' = [op |-> "copy", buf |-> now, left |-> Addresses]
  BY DEF PollAnswered, config
<1>4. Answer(now)
  <2>1. Answer(dev)
    BY <1>1 DEF Devices, Polling
  <2>2. ASSUME NEW img \in Image, now = Device(img) PROVE Answer(now)
    BY Zenon, <2>2, AnswerIsOne
  <2> QED  BY <2>1, <2>2
<1>5. poll'.op = "copy" /\ poll'.buf = now /\ poll'.left = Addresses
  BY SMT, <1>3
<1>6. Whole'
  <2>1. Whole
    BY <1>1, <1>3 DEF Devices, Polling
  <2> QED  BY Zenon, <1>2, <1>3, <2>1, WholeKept
<1>7. Halfway'
  <2>1. PICK img \in Image : \A a \in Readable : now[a] = Word(img, a)
    BY <1>4 DEF Answer
  <2>2. \A a \in Readable : a \in Addresses
    BY DEF Readable
  <2> QED  BY Zenon, <1>2, <1>5, <2>1, <2>2 DEF Halfway
<1>8. Answer(dev)' /\ Answer(poll.buf)'
  BY Zenon, <1>2, <1>3, <1>4, <1>5, AnswerKept
<1>9. Polling'
  BY Zenon, <1>2, <1>3, <1>5, <1>6, <1>7, <1>8 DEF Polling
<1>10. Objects' /\ Worded' /\ Untouched' /\ Uncommanded'
  BY Zenon, <1>1, <1>3 DEF Devices, Objects, Worded, Untouched, Uncommanded
<1> QED  BY <1>9, <1>10 DEF Devices

LEMMA PollFailsKeeps ==
  ASSUME Shape, Shape', Devices, Resting, Poller, PollFails
  PROVE  Devices'
<1>1. pc = "run" /\ pc' = pc
  BY Running
<1>2. /\ Addresses' = Addresses /\ Readable' = Readable /\ Image' = Image
  BY SetsKept
<1>3. poll.op = "idle" /\ Addresses # {} /\ poll' = poll /\ dev' = dev /\ Rerrors(TRUE)
  BY DEF PollFails
<1>4. /\ Objects' /\ Worded' /\ Uncommanded'
      /\ \A k \in DOMAIN PLCvec : \A a \in DOMAIN PLCvec[k].regs :
           PLCvec'[k].regs[a].rvalue = PLCvec[k].regs[a].rvalue
  BY Zenon, <1>1, <1>3, MarksKeep DEF Devices
<1>5. \A a \in Readable : PLCvec'[1].regs[a].rvalue = PLCvec[1].regs[a].rvalue
  <2>1. 1 \in DOMAIN PLCvec /\ Addresses = DOMAIN PLCvec[1].regs
    BY <1>3, FirstPlc
  <2> QED  BY <1>4, <2>1 DEF Readable
<1>6. Whole' /\ Answer(dev)'
  <2>1. Whole /\ Answer(dev)
    BY <1>1, <1>3 DEF Devices, Polling
  <2> QED  BY Zenon, <1>2, <1>3, <1>5, <2>1, WholeKept, AnswerKept
<1>7. Polling'
  <2>1. Answer(dev)'
    BY <1>6
  <2>2. poll'.op = "idle"
    BY <1>3
  <2> QED  BY <1>6, <2>1, <2>2 DEF Polling
<1>8. Untouched'
  BY SMT, <1>1 DEF Untouched
<1> QED  BY <1>4, <1>7, <1>8 DEF Devices

LEMMA CopyRegKeeps ==
  ASSUME Shape, Shape', Devices, Resting, Poller, CopyReg
  PROVE  Devices'
<1>1. pc = "run" /\ pc' = pc
  BY Running
<1>2. /\ Addresses' = Addresses /\ Readable' = Readable /\ Image' = Image
  BY SetsKept
<1>3. /\ 1 \in DOMAIN PLCvec /\ Addresses = DOMAIN PLCvec[1].regs
      /\ dev' = dev /\ poll.op = "copy"
  BY CopyEffect DEF CopyReg
<1>4. PICK a \in poll.left : \E r, s :
        /\ a \in Addresses /\ r = PLCvec[1].regs[a]
        /\ s = With(r, IF r.rupdate THEN r.rvalue ELSE poll.buf[a], r.rupdate, r.rerrors)
        /\ Only(PLCvec, PLCvec', 1, a, s)
        /\ poll' = [op |-> "copy", buf |-> poll.buf, left |-> poll.left \ {a}]
  BY Zenon, CopyEffect
<1>5. PICK r, s :
        /\ a \in Addresses /\ r = PLCvec[1].regs[a]
        /\ s = With(r, IF r.rupdate THEN r.rvalue ELSE poll.buf[a], r.rupdate, r.rerrors)
        /\ Only(PLCvec, PLCvec', 1, a, s)
        /\ poll' = [op |-> "copy", buf |-> poll.buf, left |-> poll.left \ {a}]
  BY <1>4
<1>6. /\ s.rvalue = IF r.rupdate THEN r.rvalue ELSE poll.buf[a]
      /\ s.rupdate = r.rupdate /\ s.rmode = r.rmode /\ s.rerrors = r.rerrors /\ RegRecord(s)
  BY SMT, <1>5 DEF With, RegRecord
<1>7. poll'.op = "copy" /\ poll'.buf = poll.buf /\ poll'.left = poll.left \ {a}
  BY SMT, <1>5
<1>8. Answer(poll.buf) /\ Halfway /\ Answer(dev) /\ Addresses # {} /\ poll.left \subseteq Addresses
  BY <1>1, <1>3 DEF Devices, Polling
<1>9. Plain(s.rvalue)
  <2>1. Plain(r.rvalue)
    BY Zenon, <1>3, <1>5 DEF Devices, Worded
  <2>2. Plain(poll.buf[a])
    BY <1>5, <1>8 DEF Answer
  <2> QED  BY <1>6, <2>1, <2>2
<1>10. Objects' /\ Worded'
  BY Zenon, <1>3, <1>5, <1>6, <1>9, OnlyKeeps DEF Devices
<1>11. ~r.rmode => ~r.rupdate
  BY Zenon, <1>1, <1>3, <1>5 DEF Devices, Uncommanded
<1>12. Uncommanded'
  BY Zenon, <1>1, <1>3, <1>5, <1>6, <1>11, UncommandedOnly DEF Devices
<1>13. Halfway'
  <2>1. PICK img \in Image : \A b \in Readable :
          /\ poll.buf[b] = Word(img, b)
          /\ b \in poll.left \/ PLCvec[1].regs[b].rvalue = Word(img, b)
    BY <1>8 DEF Halfway
  <2>2. ASSUME NEW b \in Readable
        PROVE  /\ poll'.buf[b] = Word(img, b)
               /\ b \in poll'.left \/ PLCvec'[1].regs[b].rvalue = Word(img, b)
    <3>1. b \in DOMAIN PLCvec[1].regs /\ ~PLCvec[1].regs[b].rmode
      BY <1>3 DEF Readable
    <3>2. PLCvec'[1].regs[b] = IF b = a THEN s ELSE PLCvec[1].regs[b]
      BY <1>5, <3>1 DEF Only
    <3>3. CASE b = a
      BY <1>5, <1>6, <1>7, <1>11, <2>1, <3>1, <3>2, <3>3
    <3>4. CASE b # a
      BY <1>7, <2>1, <3>2, <3>4
    <3> QED  BY <3>3, <3>4
  <2> QED  BY Zenon, <1>2, <2>2 DEF Halfway
<1>14. Polling'
  <2>2. Answer(poll.buf)' /\ Answer(dev)'
    BY Zenon, <1>2, <1>3, <1>7, <1>8, AnswerKept
  <2>3. poll'.left # Addresses' /\ poll'.left \subseteq Addresses' /\ Addresses' # {}
    BY <1>2, <1>5, <1>7, <1>8
  <2> QED  BY <1>7, <1>13, <2>2, <2>3 DEF Polling
<1>15. Untouched'
  BY SMT, <1>1 DEF Untouched
<1> QED  BY <1>10, <1>12, <1>14, <1>15 DEF Devices

LEMMA CopyEndsKeeps ==
  ASSUME Shape, Shape', Devices, Resting, Poller, CopyEnds
  PROVE  Devices'
<1>1. pc = "run" /\ pc' = pc
  BY Running
<1>2. /\ Addresses' = Addresses /\ Readable' = Readable /\ Image' = Image
  BY SetsKept
<1>3. /\ poll.op = "copy" /\ poll.left = {} /\ Rerrors(FALSE) /\ dev' = dev
      /\ poll' = [op |-> "write", buf |-> Empty, left |-> Addresses]
  BY DEF CopyEnds
<1>4. Halfway /\ Answer(dev) /\ Addresses # {}
  BY <1>1, <1>3 DEF Devices, Polling
<1>5. /\ Objects' /\ Worded' /\ Uncommanded'
      /\ \A k \in DOMAIN PLCvec : \A a \in DOMAIN PLCvec[k].regs :
           PLCvec'[k].regs[a].rvalue = PLCvec[k].regs[a].rvalue
      /\ \A a \in Addresses : PLCvec'[1].regs[a].rerrors = FALSE
  BY Zenon, <1>1, <1>3, <1>4, MarksKeep DEF Devices
<1>6. poll'.op = "write" /\ poll'.left = Addresses
  BY SMT, <1>3
<1>7. Whole'
  <2>1. PICK img \in Image : \A b \in Readable : PLCvec[1].regs[b].rvalue = Word(img, b)
    BY <1>3, <1>4 DEF Halfway
  <2>2. 1 \in DOMAIN PLCvec /\ Addresses = DOMAIN PLCvec[1].regs
    BY <1>4, FirstPlc
  <2>3. \A b \in Readable : PLCvec'[1].regs[b].rvalue = Word(img, b)
    BY <1>5, <2>1, <2>2 DEF Readable
  <2> QED  BY Zenon, <1>2, <2>3 DEF Whole
<1>8. Polling'
  <2>1. Answer(dev)'
    BY Zenon, <1>2, <1>3, <1>4, AnswerKept
  <2> QED  BY <1>2, <1>4, <1>5, <1>6, <1>7, <2>1 DEF Polling
<1>9. Untouched'
  BY SMT, <1>1 DEF Untouched
<1> QED  BY <1>5, <1>8, <1>9 DEF Devices

LEMMA WriteRegKeeps ==
  ASSUME Shape, Shape', Devices, Resting, Poller, NEW ok \in BOOLEAN, WriteReg(ok)
  PROVE  Devices'
<1>1. pc = "run" /\ pc' = pc
  BY Running
<1>2. /\ Addresses' = Addresses /\ Readable' = Readable /\ Image' = Image
  BY SetsKept
<1>3. 1 \in DOMAIN PLCvec /\ Addresses = DOMAIN PLCvec[1].regs /\ poll.op = "write"
  BY WriteEffect DEF WriteReg
<1>4. PICK a \in poll.left : \E r, s :
        /\ a \in Addresses /\ r = PLCvec[1].regs[a]
        /\ s = With(r, r.rvalue, ~ok, ~ok)
        /\ IF r.rupdate THEN /\ Only(PLCvec, PLCvec', 1, a, s)
                             /\ dev' = IF ok THEN [dev EXCEPT ![a] = r.rvalue] ELSE dev
                        ELSE UNCHANGED <<dev, PLCvec>>
        /\ poll' = [op |-> "write", buf |-> poll.buf, left |-> poll.left \ {a}]
  BY Zenon, WriteEffect
<1>5. PICK r, s :
        /\ a \in Addresses /\ r = PLCvec[1].regs[a]
        /\ s = With(r, r.rvalue, ~ok, ~ok)
        /\ IF r.rupdate THEN /\ Only(PLCvec, PLCvec', 1, a, s)
                             /\ dev' = IF ok THEN [dev EXCEPT ![a] = r.rvalue] ELSE dev
                        ELSE UNCHANGED <<dev, PLCvec>>
        /\ poll' = [op |-> "write", buf |-> poll.buf, left |-> poll.left \ {a}]
  BY <1>4
<1>6. /\ s.rvalue = r.rvalue /\ s.rmode = r.rmode /\ RegRecord(s)
  BY SMT, <1>5 DEF With, RegRecord
<1>7. poll'.op = "write" /\ poll'.left = poll.left \ {a}
  BY SMT, <1>5
<1>8. /\ Whole /\ Answer(dev) /\ Addresses # {} /\ poll.left \subseteq Addresses
      /\ \A b \in poll.left : ~PLCvec[1].regs[b].rerrors
  BY <1>1, <1>3 DEF Devices, Polling
<1>9. Plain(r.rvalue) /\ (~r.rmode => ~r.rupdate)
  BY Zenon, <1>1, <1>3, <1>5 DEF Devices, Worded, Uncommanded
<1>10. CASE ~r.rupdate
  <2>1. dev' = dev /\ PLCvec' = PLCvec
    BY <1>5, <1>10
  <2>2. Whole' /\ Answer(dev)'
    BY Zenon, <1>2, <1>8, <2>1, WholeKept, AnswerKept
  <2>3. Polling'
    BY <1>2, <1>7, <1>8, <2>1, <2>2 DEF Polling
  <2> QED  BY Zenon, <1>1, <2>1, <2>3 DEF Devices, Objects, Worded, Untouched, Uncommanded
<1>11. CASE r.rupdate
  <2>1. /\ Only(PLCvec, PLCvec', 1, a, s)
        /\ dev' = IF ok THEN [dev EXCEPT ![a] = r.rvalue] ELSE dev
    BY <1>5, <1>11
  <2>2. Objects' /\ Worded'
    BY Zenon, <1>3, <1>5, <1>6, <1>9, <2>1, OnlyKeeps DEF Devices
  <2>3. Uncommanded'
    BY Zenon, <1>1, <1>3, <1>5, <1>6, <1>9, <1>11, <2>1, UncommandedOnly DEF Devices
  <2>4. \A b \in Addresses : PLCvec'[1].regs[b] = IF b = a THEN s ELSE PLCvec[1].regs[b]
    BY <1>3, <2>1 DEF Only
  <2>5. Whole'
    <3>1. \A b \in Readable : PLCvec'[1].regs[b].rvalue = PLCvec[1].regs[b].rvalue
      BY <1>5, <1>6, <2>4 DEF Readable
    <3> QED  BY Zenon, <1>2, <1>8, <3>1, WholeKept
  <2>6. Answer(dev')
    <3>1. CASE ~ok
      BY <1>8, <2>1, <3>1
    <3>2. CASE ok
      <4>1. DOMAIN dev' = Addresses
            /\ \A b \in Addresses : dev'[b] = IF b = a THEN r.rvalue ELSE dev[b]
        BY <1>8, <2>1, <3>2 DEF Answer
      <4>2. \A b \in Addresses : Plain(dev'[b])
        BY Zenon, <1>8, <1>9, <4>1 DEF Answer
      <4>3. \A b \in Readable : b \in Addresses /\ b # a
        BY <1>5, <1>9, <1>11 DEF Readable
      <4>4. PICK img \in Image : \A b \in Readable : dev[b] = Word(img, b)
        BY <1>8 DEF Answer
      <4> QED  BY Zenon, <4>1, <4>2, <4>3, <4>4 DEF Answer
    <3> QED  BY <3>1, <3>2
  <2>7. Polling'
    <3>1. Answer(dev)'
      <4>1. PICK X : X = dev'
        OBVIOUS
      <4>2. Answer(X)
        BY <2>6, <4>1
      <4> QED  BY Zenon, <1>2, <4>1, <4>2, AnswerKept
    <3>2. \A b \in poll'.left : ~PLCvec'[1].regs[b].rerrors
      BY <1>7, <1>8, <2>4
    <3> QED  BY <1>2, <1>7, <1>8, <2>5, <3>1, <3>2 DEF Polling
  <2>8. Untouched'
    BY SMT, <1>1 DEF Untouched
  <2> QED  BY <2>2, <2>3, <2>7, <2>8 DEF Devices
<1> QED  BY <1>10, <1>11

LEMMA WriteEndsKeeps ==
  ASSUME Shape, Shape', Devices, Resting, Poller, WriteEnds
  PROVE  Devices'
<1>1. pc = "run" /\ pc' = pc
  BY Running
<1>2. /\ Addresses' = Addresses /\ Readable' = Readable /\ Image' = Image
  BY SetsKept
<1>3. poll.op = "write" /\ poll' = NoPoll /\ PLCvec' = PLCvec /\ dev' = dev
  BY DEF WriteEnds, config
<1>4. Whole /\ Answer(dev)
  BY <1>1, <1>3 DEF Devices, Polling
<1>5. Whole' /\ Answer(dev)'
  BY Zenon, <1>2, <1>3, <1>4, WholeKept, AnswerKept
<1>6. poll'.op = "idle"
  BY SMT, <1>3 DEF NoPoll
<1>7. Polling'
  BY <1>5, <1>6 DEF Polling
<1> QED  BY Zenon, <1>1, <1>3, <1>7 DEF Devices, Objects, Worded, Untouched, Uncommanded

-----------------------------------------------------------------------------
(* ... and so do the refresh task, the start and the stop.                 *)

LEMMA PlainCommand ==
  ASSUME NEW n, NEW v \in Commands(n), NEW i \in Place
  PROVE  Plain(v[i])
<1>1. Plain(Zero)
  BY PlainWord DEF Zero
<1>2. PICK c \in Command :
        v = IF Entry(n).prop.rbyteorder \in {"F10", "F100"}
            THEN Computed(Entry(n).prop.rbyteorder, 2, Word(c, 0))
            ELSE [j \in Place |-> IF j < Entry(n).prop.rsize THEN Word(c, j) ELSE Zero]
  BY DEF Commands
<1>3. CASE Entry(n).prop.rbyteorder \in {"F10", "F100"}
  <2>1. PICK k, w : v = Computed(k, 2, w)
    BY <1>2, <1>3
  <2>2. v[i] = IF i < 2 THEN [kind |-> k, at |-> i, of |-> <<w>>, flip |-> FALSE] ELSE Zero
    BY Zenon, <2>1 DEF Computed
  <2>3. Plain([kind |-> k, at |-> i, of |-> <<w>>, flip |-> FALSE])
    BY SMT DEF Plain
  <2> QED  BY Zenon, <1>1, <2>2, <2>3
<1>4. CASE Entry(n).prop.rbyteorder \notin {"F10", "F100"}
  <2>1. v[i] = IF i < Entry(n).prop.rsize THEN Word(c, i) ELSE Zero
    BY Zenon, <1>2, <1>4
  <2> QED  BY Zenon, <1>1, <2>1, PlainWord
<1> QED  BY <1>3, <1>4

LEMMA WriteWordKeeps ==
  ASSUME Shape, Shape', NoTwins, Made, Led, Devices, Resting, Entries, Giving, Refresher,
         task.n \in DOMAIN REGmap, WriteWord
  PROVE  Devices'
<1>1. task.op = "write" /\ task.i \in Words(task.n) /\ poll' = poll /\ dev' = dev /\ pc' = pc
  BY Zenon DEF WriteWord, loaded
<1>2. pc = "run"
  BY <1>1 DEF Resting
<1>3. /\ Addresses' = Addresses /\ Readable' = Readable /\ Image' = Image
  BY SetsKept
<1>4. Plain(task.val[task.i])
  <2>1. task.i \in Place
    <3>1. REGmap[task.n].prop.rsize \in {0, 1, 2, 4}
      BY RowParts DEF Entries, Entered
    <3> QED  BY SMT, <1>1, <3>1 DEF Words, Entry, Place
  <2> QED  BY <1>1, <2>1, PlainCommand DEF Giving
<1>5. PICK p, w, r, s :
        /\ w = task.val[task.i]
        /\ \/ /\ Exists(p) /\ r = Reg(p) /\ r.rmode
              /\ s = With(r, w, TRUE, r.rerrors)
              /\ Only(PLCvec, PLCvec', p.plc, p.addr, s)
           \/ PLCvec' = PLCvec
  BY Zenon, CommandEffect DEF Devices
<1>6. CASE PLCvec' = PLCvec
  <2>1. Polling'
    <3>1. Polling
      BY DEF Devices
    <3>2. poll.op # "copy" \/ poll.left = Addresses => Whole'
      BY Zenon, <1>2, <1>3, <1>6, <3>1, WholeKept DEF Polling
    <3>3. Answer(dev)' /\ (poll.op = "copy" => Answer(poll.buf)')
      BY Zenon, <1>1, <1>2, <1>3, <3>1, AnswerKept DEF Polling
    <3>4. poll.op = "copy" => Halfway'
      BY Zenon, <1>1, <1>2, <1>3, <1>6, <3>1 DEF Polling, Halfway
    <3> QED  BY Zenon, <1>1, <1>2, <1>3, <1>6, <3>1, <3>2, <3>3, <3>4 DEF Polling
  <2> QED  BY Zenon, <1>1, <1>6, <2>1 DEF Devices, Objects, Worded, Untouched, Uncommanded
<1>7. CASE PLCvec' # PLCvec
  <2>1. PICK k, a : k = p.plc /\ a = p.addr
    OBVIOUS
  <2>2. /\ k \in DOMAIN PLCvec /\ a \in DOMAIN PLCvec[k].regs /\ r = PLCvec[k].regs[a]
        /\ r.rmode /\ s = With(r, w, TRUE, r.rerrors) /\ Only(PLCvec, PLCvec', k, a, s)
    BY Zenon, <1>5, <1>7, <2>1 DEF Exists, Reg
  <2>3. s.rvalue = w /\ s.rmode = r.rmode /\ s.rerrors = r.rerrors /\ RegRecord(s)
    <3>1. s = With(r, w, TRUE, r.rerrors)
      BY <2>2
    <3> QED  BY SMT, <3>1 DEF With, RegRecord
  <2>4. Objects' /\ Worded'
    BY Zenon, <1>4, <1>5, <2>2, <2>3, OnlyKeeps DEF Devices
  <2>5. Uncommanded'
    BY Zenon, <1>1, <2>2, <2>3, UncommandedOnly DEF Devices
  <2>6. Untouched'
    BY SMT, <1>1, <1>2 DEF Untouched
  <2>7. ASSUME NEW b \in Addresses
        PROVE  /\ PLCvec'[1].regs[b].rerrors = PLCvec[1].regs[b].rerrors
               /\ b \in Readable => PLCvec'[1].regs[b].rvalue = PLCvec[1].regs[b].rvalue
    <3>1. 1 \in DOMAIN PLCvec /\ b \in DOMAIN PLCvec[1].regs
      BY <2>7, FirstPlc
    <3>2. CASE k = 1
      <4>1. PLCvec'[1].regs[b] = IF b = a THEN s ELSE PLCvec[1].regs[b]
        BY <2>2, <3>1, <3>2 DEF Only
      <4>2. CASE b = a
        BY <2>2, <2>3, <3>2, <4>1, <4>2 DEF Readable
      <4>3. CASE b # a
        BY <4>1, <4>3
      <4> QED  BY <4>2, <4>3
    <3>3. CASE k # 1
      BY <2>2, <3>1, <3>3 DEF Only
    <3> QED  BY <3>2, <3>3
  <2>8. Polling'
    <3>1. Polling
      BY DEF Devices
    <3>2. \A b \in Readable : b \in Addresses
      BY DEF Readable
    <3>3. poll.op # "copy" \/ poll.left = Addresses => Whole'
      BY Zenon, <1>2, <1>3, <2>7, <3>1, <3>2, WholeKept DEF Polling
    <3>4. Answer(dev)' /\ (poll.op = "copy" => Answer(poll.buf)')
      BY Zenon, <1>1, <1>2, <1>3, <3>1, AnswerKept DEF Polling
    <3>5. poll.op = "copy" => Halfway'
      <4>1. ASSUME poll.op = "copy" PROVE Halfway'
        <5>1. PICK img \in Image : \A b \in Readable :
                /\ poll.buf[b] = Word(img, b)
                /\ b \in poll.left \/ PLCvec[1].regs[b].rvalue = Word(img, b)
          BY Zenon, <1>2, <3>1, <4>1 DEF Polling, Halfway
        <5>2. \A b \in Readable :
                /\ poll'.buf[b] = Word(img, b)
                /\ b \in poll'.left \/ PLCvec'[1].regs[b].rvalue = Word(img, b)
          BY <1>1, <2>7, <3>2, <5>1
        <5> QED  BY Zenon, <1>3, <5>2 DEF Halfway
      <4> QED  BY <4>1
    <3>6. /\ poll.op # "idle" => Addresses # {} /\ poll.left \subseteq Addresses
          /\ poll.op = "write" => \A b \in poll.left : ~PLCvec'[1].regs[b].rerrors
      <4>1. /\ poll.op # "idle" => Addresses # {} /\ poll.left \subseteq Addresses
            /\ poll.op = "write" => \A b \in poll.left : ~PLCvec[1].regs[b].rerrors
        BY <1>2, <3>1 DEF Polling
      <4>2. poll.op = "write" => \A b \in poll.left : b \in Addresses
        BY <4>1
      <4> QED  BY <2>7, <4>1, <4>2
    <3> QED  BY Zenon, <1>1, <1>2, <1>3, <3>3, <3>4, <3>5, <3>6 DEF Polling
  <2> QED  BY <2>4, <2>5, <2>6, <2>8 DEF Devices
<1> QED  BY <1>6, <1>7

\* Where neither the registers nor the polling thread change.
LEMMA DevicesStay ==
  ASSUME Devices, UNCHANGED <<file, pc, PLCvec, poll, dev>>
  PROVE  Devices'
<1>1. /\ Addresses' = Addresses /\ Readable' = Readable /\ Image' = Image
  BY DEF Addresses, Readable, Image
<1>2. Polling'
  <2>1. ASSUME pc = "run" PROVE Polling'
    <3>1. Polling
      BY DEF Devices
    <3>2. poll.op # "copy" \/ poll.left = Addresses => Whole'
      BY Zenon, <1>1, <2>1, <3>1, WholeKept DEF Polling
    <3>3. Answer(dev)' /\ (poll.op = "copy" => Answer(poll.buf)')
      BY Zenon, <1>1, <2>1, <3>1, AnswerKept DEF Polling
    <3>4. poll.op = "copy" => Halfway'
      BY Zenon, <1>1, <2>1, <3>1 DEF Polling, Halfway
    <3> QED  BY Zenon, <1>1, <2>1, <3>1, <3>2, <3>3, <3>4 DEF Polling
  <2> QED  BY <2>1 DEF Polling
<1> QED  BY Zenon, <1>2 DEF Devices, Objects, Worded, Untouched, Uncommanded

LEMMA StartKeeps ==
  ASSUME Shape, Shape', Devices, Resting, Start
  PROVE  Devices'
<1>1. /\ pc = "ready" /\ pc' = "run" /\ file' = file /\ PLCvec' = PLCvec /\ poll' = poll
      /\ dev' = Device(CHOOSE img \in Image : TRUE)
  BY DEF Start
<1>2. /\ Addresses' = Addresses /\ Readable' = Readable /\ Image' = Image
  BY <1>1 DEF Addresses, Readable, Image
<1>3. \A k \in DOMAIN PLCvec : \A a \in DOMAIN PLCvec[k].regs :
        LET r == PLCvec[k].regs[a] IN r.rvalue = NotYet /\ ~r.rupdate /\ ~r.rerrors
  BY <1>1 DEF Devices, Untouched
<1>4. Uncommanded' /\ Untouched'
  BY <1>1, <1>3 DEF Uncommanded, Untouched
<1>5. Answer(dev)'
  <2>1. (CHOOSE img \in Image : TRUE) \in Image
    BY FilesAssumption DEF Shape, Scalars, Image
  <2>2. Answer(Device(CHOOSE img \in Image : TRUE))
    BY Zenon, <2>1, AnswerIsOne
  <2> QED  BY Zenon, <1>1, <1>2, <2>2, AnswerKept
<1>6. Whole'
  <2>1. \A a \in Readable : PLCvec[1].regs[a].rvalue = NotYet
    BY <1>3, FirstPlc DEF Readable
  <2> QED  BY <1>1, <1>2, <2>1 DEF Whole
<1>7. poll'.op = "idle"
  BY <1>1 DEF Resting
<1>8. Polling'
  BY <1>5, <1>6, <1>7 DEF Polling
<1> QED  BY Zenon, <1>1, <1>4, <1>8 DEF Devices, Objects, Worded

LEMMA StopKeeps ==
  ASSUME Devices, Stop
  PROVE  Devices'
<1>1. pc' = "stopped" /\ PLCvec' = PLCvec
  BY DEF Stop
<1>2. Untouched' /\ Uncommanded' /\ Polling'
  BY <1>1 DEF Untouched, Uncommanded, Polling
<1> QED  BY Zenon, <1>1, <1>2 DEF Devices, Objects, Worded

LEMMA RunDevices ==
  ASSUME Shape, Shape', NoTwins, Made, Led, Devices, Resting, Entries, Giving,
         task.op # "idle" => task.n \in DOMAIN REGmap,
         Poller \/ Refresher
  PROVE  Devices'
<1>1. CASE Poller
  <2>1. ASSUME NEW now \in {dev} \cup {Device(img) : img \in Image}, PollAnswered(now)
        PROVE  Devices'
    BY Zenon, <1>1, <2>1, PollAnsweredKeeps
  <2>2. CASE PollFails
    BY Zenon, <1>1, <2>2, PollFailsKeeps
  <2>3. CASE CopyReg
    BY Zenon, <1>1, <2>3, CopyRegKeeps
  <2>4. CASE CopyEnds
    BY Zenon, <1>1, <2>4, CopyEndsKeeps
  <2>5. ASSUME NEW ok \in BOOLEAN, WriteReg(ok) PROVE Devices'
    BY Zenon, <1>1, <2>5, WriteRegKeeps
  <2>6. CASE WriteEnds
    BY Zenon, <1>1, <2>6, WriteEndsKeeps
  <2> QED  BY Zenon, <1>1, <2>1, <2>2, <2>3, <2>4, <2>5, <2>6 DEF Poller
<1>2. CASE Refresher
  <2>1. CASE WriteWord
    <3>1. task.op # "idle"
      <4>1. task.op = "write"
        BY Zenon, <2>1 DEF WriteWord
      <4> QED  BY <4>1
    <3> QED  BY Zenon, <1>2, <2>1, <3>1, WriteWordKeeps
  <2>2. CASE UNCHANGED <<file, pc, PLCvec, poll, dev>>
    BY Zenon, <2>2, DevicesStay
  <2>3. WriteWord \/ UNCHANGED <<file, pc, PLCvec, poll, dev>>
    BY Zenon, <1>2 DEF Refresher, ReadBegins, WriteBegins, ReadWord, ReadEnds, WriteDone,
       TakeOpc, loaded, config
  <2> QED  BY <2>1, <2>2, <2>3
<1> QED  BY <1>1, <1>2

-----------------------------------------------------------------------------
(* The threads rest, and entries stay what they are.                       *)

LEMMA TaskChanged ==
  ASSUME NEW t, TaskRecord(t), NEW i, NEW v, NEW b, NEW u
  PROVE  /\ u = [t EXCEPT !.i = i] =>
              TaskRecord(u) /\ u.op = t.op /\ u.n = t.n /\ u.i = i /\ u.val = t.val
              /\ u.bad = t.bad /\ u.torn = t.torn
         /\ u = [t EXCEPT !.i = i, !.val = v] =>
              TaskRecord(u) /\ u.op = t.op /\ u.n = t.n /\ u.i = i /\ u.val = v
              /\ u.bad = t.bad /\ u.torn = t.torn
         /\ u = [t EXCEPT !.torn = b] =>
              TaskRecord(u) /\ u.op = t.op /\ u.n = t.n /\ u.i = t.i /\ u.val = t.val
              /\ u.bad = t.bad /\ u.torn = b
<1>1. /\ t.op \in {"idle", "read", "write"}
      /\ t = [op |-> t.op, n |-> t.n, i |-> t.i, val |-> t.val, bad |-> t.bad, torn |-> t.torn]
  BY DEF TaskRecord
<1>2. ASSUME u = [t EXCEPT !.i = i]
      PROVE  u = [op |-> t.op, n |-> t.n, i |-> i, val |-> t.val, bad |-> t.bad, torn |-> t.torn]
  BY SMT, <1>1, <1>2
<1>3. ASSUME u = [t EXCEPT !.i = i, !.val = v]
      PROVE  u = [op |-> t.op, n |-> t.n, i |-> i, val |-> v, bad |-> t.bad, torn |-> t.torn]
  <2>1. PICK s : s = [t EXCEPT !.i = i]
    OBVIOUS
  <2>2. s = [op |-> t.op, n |-> t.n, i |-> i, val |-> t.val, bad |-> t.bad, torn |-> t.torn]
    BY <1>2, <2>1, SMT, <1>1
  <2>3. u = [s EXCEPT !.val = v]
    BY Zenon, <1>3, <2>1
  <2> QED  BY SMT, <2>2, <2>3
<1>4. ASSUME u = [t EXCEPT !.torn = b]
      PROVE  u = [op |-> t.op, n |-> t.n, i |-> t.i, val |-> t.val, bad |-> t.bad, torn |-> b]
  BY SMT, <1>1, <1>4
<1>5. ASSUME NEW n, NEW j, NEW w, NEW c, NEW d,
             u = [op |-> t.op, n |-> n, i |-> j, val |-> w, bad |-> c, torn |-> d]
      PROVE  TaskRecord(u) /\ u.op = t.op /\ u.n = n /\ u.i = j /\ u.val = w /\ u.bad = c
             /\ u.torn = d
  BY SMT, <1>1, <1>5 DEF TaskRecord
<1> QED  BY Zenon, <1>2, <1>3, <1>4, <1>5

LEMMA TaskMade ==
  ASSUME NEW c \in {"idle", "read", "write"}, NEW n, NEW i, NEW v, NEW b, NEW d, NEW u,
         u = [op |-> c, n |-> n, i |-> i, val |-> v, bad |-> b, torn |-> d]
  PROVE  /\ TaskRecord(u) /\ u.op = c /\ u.n = n /\ u.i = i /\ u.val = v /\ u.bad = b
         /\ u.torn = d
BY SMT DEF TaskRecord

LEMMA RestingStep ==
  ASSUME Resting, [Next]_vars
  PROVE  Resting'
<1>1. CASE UNCHANGED vars
  BY Zenon, <1>1 DEF Resting, vars, config, run
<1>2. CASE ConfigStep /\ UNCHANGED run
  <2>1. pc # "run"
    BY SMT, <1>2 DEF ConfigStep, ReadFile, SkipPlc, AddPlc, CreateEntries, NextSet, SkipVar,
       InSet, AddVar, ScadaDone, OpcRegsInit, RegsDeinit, OpcDeinit, MbDeinit
  <2> QED  BY <1>2, <2>1 DEF Resting, run
<1>3. CASE Start
  <2>1. pc' = "run" /\ poll' = poll /\ task' = task
    BY <1>3 DEF Start
  <2> QED  BY <2>1 DEF Resting
<1>4. CASE Stop
  <2>1. poll.op = "idle" /\ task.op = "idle" /\ poll' = poll /\ task' = task /\ cmd' = Empty
    BY <1>4 DEF Stop
  <2>2. DOMAIN cmd' = {}
    BY SMT, <2>1 DEF Empty
  <2> QED  BY <2>1, <2>2 DEF Resting
<1>5. CASE Poller
  <2>1. pc' = "run"
    BY <1>5, Running
  <2>2. task' = task \/ \E b : task' = [task EXCEPT !.torn = b]
    BY Zenon, <1>5 DEF Poller, PollAnswered, PollFails, CopyReg, Stored, CopyEnds, WriteReg,
       WriteEnds
  <2>3. TaskRecord(task')
    <3>1. TaskRecord(task)
      BY DEF Resting
    <3>2. ASSUME NEW b, task' = [task EXCEPT !.torn = b] PROVE TaskRecord(task')
      BY Zenon, <3>1, <3>2, TaskChanged
    <3> QED  BY Zenon, <2>2, <3>1, <3>2
  <2>4. \/ poll' = poll \/ poll' = NoPoll
        \/ \E b, c, l : poll' = [op |-> c, buf |-> b, left |-> l] /\ c \in {"copy", "write"}
        \/ poll.op # "idle" /\ \E l : poll' = [poll EXCEPT !.left = l]
    BY Zenon, <1>5 DEF Poller, PollAnswered, PollFails, CopyReg, CopyEnds, WriteReg,
       WriteEnds, Rest
  <2>5. /\ poll'.op = "idle" => poll' = NoPoll
        /\ poll'.op \in {"idle", "copy", "write"}
        /\ poll' = [op |-> poll'.op, buf |-> poll'.buf, left |-> poll'.left]
    BY SMT, <2>4 DEF Resting, NoPoll
  <2> QED  BY <2>1, <2>3, <2>5 DEF Resting
<1>6. CASE Refresher
  <2>1. poll' = poll /\ pc' = pc /\ (pc = "run" \/ task.op \in {"read", "write"})
    BY Zenon, <1>6 DEF Refresher, ReadBegins, WriteBegins, ReadWord, ReadEnds, WriteWord,
       WriteDone, TakeOpc, loaded, config
  <2>2. pc' = "run"
    BY <2>1 DEF Resting
  <2>3. TaskRecord(task)
    BY DEF Resting
  <2>4. ASSUME NEW n, ReadBegins(n) PROVE TaskRecord(task')
    <3>1. PICK i, e, r : /\ e = get_plc_errors(n) /\ r = (poll.op = "copy")
                         /\ i = IF Entry(n).prop.rsize = 1
                                   /\ (e \/ Entry(n).prop.rtype \in {"HEX", "BINARY"})
                                THEN 0 ELSE Entry(n).prop.rsize
      OBVIOUS
    <3>2. task' = [op |-> "read", n |-> n, i |-> i, val |-> Blank, bad |-> e, torn |-> r]
      BY SMT, <2>4, <3>1 DEF ReadBegins
    <3> QED  BY <3>2, TaskMade
  <2>5. ASSUME NEW n, NEW v, WriteBegins(n, v) PROVE TaskRecord(task')
    <3>2. task' = [op |-> "write", n |-> n, i |-> 0, val |-> v, bad |-> FALSE, torn |-> FALSE]
      BY Zenon, <2>5 DEF WriteBegins
    <3> QED  BY <3>2, TaskMade
  <2>6. ASSUME ReadWord PROVE TaskRecord(task')
    <3>1. PICK i, w, b, v : /\ task' = [task EXCEPT !.i = i, !.val[b] = w]
                            /\ v = [task.val EXCEPT ![b] = w]
      BY Zenon, <2>6 DEF ReadWord
    <3>2. task' = [task EXCEPT !.i = i, !.val = v]
      BY Zenon, <3>1
    <3> QED  BY Zenon, <2>3, <3>2, TaskChanged
  <2>7. ASSUME WriteWord PROVE TaskRecord(task')
    <3>1. PICK i : task' = [task EXCEPT !.i = i]
      BY Zenon, <2>7 DEF WriteWord
    <3> QED  BY Zenon, <2>3, <3>1, TaskChanged
  <2>8. ASSUME task' = task \/ task' = NoTask PROVE TaskRecord(task')
    <3>1. TaskRecord(NoTask)
      BY SMT DEF TaskRecord, NoTask
    <3> QED  BY <2>3, <2>8, <3>1
  <2>9. TaskRecord(task')
    <3>1. (ReadEnds \/ WriteDone \/ \E n, v : TakeOpc(n, v)) => task' = task \/ task' = NoTask
      BY Zenon DEF ReadEnds, WriteDone, TakeOpc
    <3> QED  BY Zenon, <1>6, <2>4, <2>5, <2>6, <2>7, <2>8, <3>1 DEF Refresher
  <2> QED  BY <2>1, <2>2, <2>9 DEF Resting
<1> QED  BY Zenon, <1>1, <1>2, <1>3, <1>4, <1>5, <1>6 DEF Next

\* An entry with another value, or found in error or not.
LEMMA EntryChanged ==
  ASSUME NEW e, EntryRecord(e), Fitting(e.Number), NEW v, NEW b, NEW f, NEW g,
         f = [e EXCEPT !.Number.value = v], g = [e EXCEPT !.var_errors = b]
  PROVE  /\ EntryRecord(f) /\ f.prop = e.prop /\ f.Number.value = v /\ f.Number.ua = e.Number.ua
         /\ Fitting(f.Number)
         /\ EntryRecord(g) /\ g.prop = e.prop /\ g.Number = e.Number
<1>1. PICK x, y : x = e.Number /\ y = [x EXCEPT !.value = v]
  OBVIOUS
<1>2. f = [e EXCEPT !.Number = y]
  BY Zenon, <1>1
<1>3. x = [ua |-> x.ua, words |-> x.words, isgood |-> x.isgood, value |-> x.value]
  BY <1>1 DEF Fitting
<1>4. y.value = v /\ y.ua = x.ua
  BY SMT, <1>1, <1>3
<1>5. e = [kind |-> e.kind, rw |-> e.rw, prop |-> e.prop, ptr |-> e.ptr,
           var_errors |-> e.var_errors, Number |-> e.Number, path |-> e.path]
  BY DEF EntryRecord
<1>6. /\ f = [kind |-> e.kind, rw |-> e.rw, prop |-> e.prop, ptr |-> e.ptr,
              var_errors |-> e.var_errors, Number |-> y, path |-> e.path]
      /\ g = [kind |-> e.kind, rw |-> e.rw, prop |-> e.prop, ptr |-> e.ptr,
              var_errors |-> b, Number |-> e.Number, path |-> e.path]
  BY SMT, <1>2, <1>5
<1>7. /\ f.kind = e.kind /\ f.rw = e.rw /\ f.prop = e.prop /\ f.ptr = e.ptr
      /\ f.var_errors = e.var_errors /\ f.Number = y /\ f.path = e.path
      /\ g.kind = e.kind /\ g.rw = e.rw /\ g.prop = e.prop /\ g.ptr = e.ptr
      /\ g.var_errors = b /\ g.Number = e.Number /\ g.path = e.path
  BY SMT, <1>6
<1>8. Fitting(y)
  BY <1>1, FittingValue
<1> QED  BY <1>1, <1>4, <1>6, <1>7, <1>8 DEF EntryRecord

\* The words that the value of a number may have.
Fills(v, t) == t.rbyteorder \in Orders => \A i \in Place : i >= t.rsize => v[i] = Zero

LEMMA EntriesWith ==
  ASSUME Entries, Numbers, NEW n \in DOMAIN REGmap, NEW v, NEW b
  PROVE  /\ REGmap' = [REGmap EXCEPT ![n].var_errors = b] => Entries'
         /\ Fills(v, REGmap[n].prop) =>
              /\ REGmap' = [REGmap EXCEPT ![n].Number.value = v] => Entries'
              /\ REGmap' = [REGmap EXCEPT ![n].Number.value = v, ![n].var_errors = b] => Entries'
<1>1. PICK e, f, g, h : /\ e = REGmap[n]
                        /\ f = [e EXCEPT !.Number.value = v]
                        /\ g = [e EXCEPT !.var_errors = b]
                        /\ h = [f EXCEPT !.var_errors = b]
  OBVIOUS
<1>2. EntryRecord(e) /\ e.prop \in Rows /\ Padded(e) /\ Fitting(e.Number)
  BY <1>1 DEF Entries, Entered, Numbers
<1>3. /\ EntryRecord(f) /\ f.prop = e.prop /\ f.Number.value = v /\ Fitting(f.Number)
      /\ EntryRecord(g) /\ g.prop = e.prop /\ g.Number = e.Number
  BY <1>1, <1>2, EntryChanged
<1>4. EntryRecord(h) /\ h.prop = f.prop /\ h.Number = f.Number
  <2>1. PICK k : k = [f EXCEPT !.Number.value = v]
    OBVIOUS
  <2>2. PICK q, m : q = f /\ m = v
    OBVIOUS
  <2>3. /\ EntryRecord(q) /\ Fitting(q.Number)
        /\ k = [q EXCEPT !.Number.value = m] /\ h = [q EXCEPT !.var_errors = b]
    BY Zenon, <1>1, <1>3, <2>1, <2>2
  <2>4. h.prop = q.prop /\ h.Number = q.Number /\ EntryRecord(h)
    BY <2>3, EntryChanged
  <2> QED  BY <2>2, <2>4
<1>5. Entered(g)
  BY <1>2, <1>3 DEF Entered, Padded
<1>6. Fills(v, e.prop) => Entered(f) /\ Entered(h)
  BY <1>2, <1>3, <1>4 DEF Entered, Padded, Fills
<1>7. ASSUME NEW k, Entered(k), DOMAIN REGmap' = DOMAIN REGmap,
             \A m \in DOMAIN REGmap : REGmap'[m] = IF m = n THEN k ELSE REGmap[m]
      PROVE  Entries'
  <2>1. \A m \in DOMAIN REGmap' : Entered(REGmap'[m])
    BY Zenon, <1>7 DEF Entries
  <2>2. ASSUME NEW m \in DOMAIN REGmap' PROVE Entered(REGmap[m])'
    BY <2>1 DEF Entered, EntryRecord, Padded
  <2> QED  BY <2>2 DEF Entries
<1>8. ASSUME REGmap' = [REGmap EXCEPT ![n].var_errors = b] PROVE Entries'
  <2>1. REGmap' = [REGmap EXCEPT ![n] = g]
    BY Zenon, <1>1, <1>8
  <2> QED  BY Zenon, <1>5, <1>7, <2>1
<1>9. ASSUME Fills(v, e.prop), REGmap' = [REGmap EXCEPT ![n].Number.value = v] PROVE Entries'
  <2>1. REGmap' = [REGmap EXCEPT ![n] = f]
    BY Zenon, <1>1, <1>9
  <2> QED  BY Zenon, <1>6, <1>7, <1>9, <2>1
<1>10. ASSUME Fills(v, e.prop),
              REGmap' = [REGmap EXCEPT ![n].Number.value = v, ![n].var_errors = b]
       PROVE  Entries'
  <2>1. PICK F : F = [REGmap EXCEPT ![n].Number.value = v]
    OBVIOUS
  <2>2. F = [REGmap EXCEPT ![n] = f]
    BY Zenon, <1>1, <2>1
  <2>3. REGmap' = [F EXCEPT ![n].var_errors = b]
    BY Zenon, <1>10, <2>1
  <2>4. F[n] = f /\ DOMAIN F = DOMAIN REGmap /\ \A m \in DOMAIN REGmap : m # n => F[m] = REGmap[m]
    BY Zenon, <2>2
  <2>5. REGmap' = [F EXCEPT ![n] = h]
    BY Zenon, <1>1, <2>3, <2>4
  <2> QED  BY Zenon, <1>6, <1>7, <1>10, <2>4, <2>5
<1> QED  BY Zenon, <1>1, <1>8, <1>9, <1>10

LEMMA FillsCommand ==
  ASSUME NEW n, REGmap[n].prop \in Rows, NEW v \in Commands(n)
  PROVE  Fills(v, REGmap[n].prop)
<1>1. PICK c \in Command :
        v = IF REGmap[n].prop.rbyteorder \in {"F10", "F100"}
            THEN Computed(REGmap[n].prop.rbyteorder, 2, Word(c, 0))
            ELSE [j \in Place |-> IF j < REGmap[n].prop.rsize THEN Word(c, j) ELSE Zero]
  BY DEF Commands, Entry
<1>2. ASSUME REGmap[n].prop.rbyteorder \in Orders
      PROVE  v = [j \in Place |-> IF j < REGmap[n].prop.rsize THEN Word(c, j) ELSE Zero]
  BY <1>1, <1>2 DEF Orders
<1>3. ASSUME REGmap[n].prop.rbyteorder \in Orders, NEW i \in Place, i >= REGmap[n].prop.rsize
      PROVE  v[i] = Zero
  <2>1. PICK z : z = REGmap[n].prop.rsize
    OBVIOUS
  <2>2. v[i] = IF i < z THEN Word(c, i) ELSE Zero
    BY Zenon, <1>2, <1>3, <2>1
  <2>3. z \in Nat
    BY <2>1, RowParts
  <2> QED  BY SMT, <1>3, <2>1, <2>2, <2>3 DEF Place
<1> QED  BY <1>3 DEF Fills

LEMMA FillsConverted ==
  ASSUME NEW t \in Rows, NEW old, Fills(old, t), NEW reg, NEW b
  PROVE  Fills(Converted(t, old, reg, b), t)
<1> SUFFICES ASSUME t.rbyteorder \in Orders, NEW i \in Place, i >= t.rsize
             PROVE  Converted(t, old, reg, b)[i] = Zero
  BY DEF Fills
<1>1. t.rsize \in {2, 4}
  BY RowParts
<1>2. PICK n, v : n = t.rsize /\ v = Pull(old, reg, n, t.rbyteorder)
  OBVIOUS
<1>3. Converted(t, old, reg, b) = IF b THEN Low(Bad(t.rtype, n), n, v) ELSE v
  BY SMT, <1>1, <1>2 DEF Converted
<1>4. v[i] = Zero
  <2>1. v[i] = old[i]
    <3>1. n \in {2, 4} /\ i >= n
      BY <1>1, <1>2
    <3>2. PICK o \in Orders : o = t.rbyteorder
      OBVIOUS
    <3>3. v = Pull(old, reg, n, o)
      BY <1>2, <3>2
    <3> QED  BY Zenon, <3>1, <3>3, PulledLeavesRest
  <2>2. old[i] = Zero
    BY DEF Fills
  <2> QED  BY <2>1, <2>2
<1>5. Low(Bad(t.rtype, n), n, v)[i] = IF i < n THEN Bad(t.rtype, n)[i] ELSE v[i]
  BY Zenon DEF Low
<1>6. ~(i < n)
  BY SMT, <1>1, <1>2 DEF Place
<1> QED  BY Zenon, <1>3, <1>4, <1>5, <1>6

LEMMA RunEntries ==
  ASSUME Shape, Resting, Entries, Giving, task.op # "idle" => task.n \in DOMAIN REGmap,
         Poller \/ Refresher
  PROVE  Entries'
<1>0. Numbers
  BY DEF Shape
<1>1. ASSUME NEW n \in DOMAIN REGmap
      PROVE  REGmap[n].prop \in Rows /\ Fills(REGmap[n].Number.value, REGmap[n].prop)
  BY DEF Entries, Entered, Padded, Fills
<1>2. CASE ReadWord
  <2>1. task.n \in DOMAIN REGmap
    <3>1. task.op = "read"
      BY Zenon, <1>2 DEF ReadWord
    <3> QED  BY <3>1
  <2>2. PICK e : REGmap' = [REGmap EXCEPT ![task.n].var_errors = e]
    BY Zenon, <1>2 DEF ReadWord
  <2> QED  BY Zenon, <1>0, <2>1, <2>2, EntriesWith
<1>3. CASE ReadEnds
  <2>1. task.n \in DOMAIN REGmap
    <3>1. task.op = "read"
      BY Zenon, <1>3 DEF ReadEnds
    <3> QED  BY <3>1
  <2>2. PICK v : v = Converted(REGmap[task.n].prop, REGmap[task.n].Number.value,
                               task.val, task.bad)
    OBVIOUS
  <2>3. REGmap' = [REGmap EXCEPT ![task.n].Number.value = v]
    BY Zenon, <1>3, <2>2 DEF ReadEnds, Entry
  <2>4. Fills(v, REGmap[task.n].prop)
    BY Zenon, <1>1, <2>1, <2>2, FillsConverted
  <2> QED  BY Zenon, <1>0, <2>1, <2>3, <2>4, EntriesWith
<1>4. CASE WriteDone
  <2>1. task.op = "write"
    BY Zenon, <1>4 DEF WriteDone
  <2>2. task.n \in DOMAIN REGmap /\ task.val \in Commands(task.n)
    BY <2>1 DEF Giving
  <2>3. REGmap' = [REGmap EXCEPT ![task.n].Number.value = task.val]
    BY Zenon, <1>4 DEF WriteDone
  <2>4. Fills(task.val, REGmap[task.n].prop)
    BY Zenon, <1>1, <2>2, FillsCommand
  <2> QED  BY Zenon, <1>0, <2>2, <2>3, <2>4, EntriesWith
<1>5. ASSUME NEW n \in Watched, NEW v \in OpcValues(n), TakeOpc(n, v)
      PROVE  Entries'
  <2>1. n \in DOMAIN REGmap
    BY DEF Watched
  <2>2. Fills(v, REGmap[n].prop)
    <3>1. CASE v \in Commands(n)
      BY Zenon, <1>1, <2>1, <3>1, FillsCommand
    <3>2. CASE v = Entry(n).Number.value
      BY <1>1, <2>1, <3>2 DEF Entry
    <3>3. CASE v = Blank
      BY <3>3 DEF Blank, Fills
    <3> QED  BY Zenon, <3>1, <3>2, <3>3 DEF OpcValues
  <2>3. PICK b : REGmap' = [REGmap EXCEPT ![n].Number.value = v, ![n].var_errors = b]
    BY Zenon, <1>5 DEF TakeOpc
  <2> QED  BY Zenon, <1>0, <2>1, <2>2, <2>3, EntriesWith
<1>6. CASE UNCHANGED REGmap
  <2>1. ASSUME NEW m \in DOMAIN REGmap' PROVE Entered(REGmap[m])'
    BY <1>6 DEF Entries, Entered, EntryRecord, Padded
  <2> QED  BY <2>1 DEF Entries
<1>7. CASE Poller
  BY Zenon, <1>6, <1>7 DEF Poller, PollAnswered, PollFails, CopyReg, CopyEnds, WriteReg,
     WriteEnds, config
<1>8. ASSUME NEW n, ReadBegins(n) \/ \E v : WriteBegins(n, v) PROVE UNCHANGED REGmap
  BY Zenon, <1>8 DEF ReadBegins, WriteBegins, config
<1>9. WriteWord => UNCHANGED REGmap
  BY Zenon DEF WriteWord
<1> QED  BY Zenon, <1>2, <1>3, <1>4, <1>5, <1>6, <1>7, <1>8, <1>9 DEF Refresher

-----------------------------------------------------------------------------
(* What the task has read.                                                 *)

LEMMA WordPlace ==
  ASSUME Entries, NEW n \in DOMAIN REGmap, NEW i \in Words(n)
  PROVE  i \in Place /\ i < REGmap[n].prop.rsize /\ REGmap[n].prop.rsize \in {0, 1, 2, 4}
<1>1. REGmap[n].prop.rsize \in {0, 1, 2, 4}
  BY RowParts DEF Entries, Entered
<1> QED  BY SMT, <1>1 DEF Words, Entry, Place

\* The registers may be found in error, but those that are not have their words.
LEMMA GatheredKept ==
  ASSUME Shape, Shape', NoTwins, Made, Led, Entries, Gathered, Poller \/ Refresher,
         task' = task,
         ~task.torn /\ poll'.op = "copy" => poll'.left = Addresses,
         task.op = "read" /\ ~task.torn =>
           \A k \in DOMAIN PLCvec : \A a \in DOMAIN PLCvec[k].regs :
             ~PLCvec'[k].regs[a].rerrors =>
               /\ ~PLCvec[k].regs[a].rerrors
               /\ PLCvec'[k].regs[a].rvalue = PLCvec[k].regs[a].rvalue
  PROVE  Gathered'
<1> SUFFICES ASSUME task.op = "read" PROVE Gathered'
  BY DEF Gathered
<1>1. /\ task.n \in DOMAIN REGmap /\ task.i \in 0 .. 4
      /\ task.val = [i \in Place |-> task.val[i]]
  BY DEF Gathered
<1>2. /\ DOMAIN REGmap' = DOMAIN REGmap /\ REGmap'[task.n].prop = REGmap[task.n].prop
      /\ REGmap'[task.n].ptr = REGmap[task.n].ptr
  BY <1>1, TablesKept
<1>3. Addresses' = Addresses /\ Words(task.n)' = Words(task.n)
  BY <1>2, SetsKept DEF Words, Entry
<1>4. AtOnce(task.n, task.bad)' <=> AtOnce(task.n, task.bad)
  BY <1>2 DEF AtOnce, Entry
<1>5. ASSUME ~task.torn, ~AtOnce(task.n, task.bad), NEW i \in Words(task.n), i >= task.i,
             NEW p, p = REGmap[task.n].ptr[i], p # Null, ~PLCvec'[p.plc].regs[p.addr].rerrors
      PROVE  task.val[i] = PLCvec'[p.plc].regs[p.addr].rvalue
  <2>1. i \in Place
    BY <1>1, WordPlace
  <2>2. Exists(p)
    <3>1. p = REGmap[task.n].ptr[i] /\ p # Null
      BY <1>5
    <3> QED  BY <1>1, <2>1, <3>1, PointerForm
  <2>3. /\ ~PLCvec[p.plc].regs[p.addr].rerrors
        /\ PLCvec'[p.plc].regs[p.addr].rvalue = PLCvec[p.plc].regs[p.addr].rvalue
    BY <1>5, <2>2 DEF Exists
  <2>4. task.val[i] = Reg(p).rvalue
    BY <1>5, <2>3 DEF Gathered, Entry, Reg
  <2> QED  BY <2>3, <2>4 DEF Reg
<1>6. ~task.torn /\ ~AtOnce(task.n, task.bad) =>
        \A i \in Words(task.n) : LET p == REGmap'[task.n].ptr[i] IN
          i >= task.i /\ p # Null /\ ~PLCvec'[p.plc].regs[p.addr].rerrors =>
            task.val[i] = PLCvec'[p.plc].regs[p.addr].rvalue
  BY Zenon, <1>2, <1>5
<1> QED  BY Zenon, <1>1, <1>2, <1>3, <1>4, <1>6 DEF Gathered, Reg, Entry

LEMMA TaskAt ==
  ASSUME NEW t, TaskRecord(t), NEW i, NEW u, u = [t EXCEPT !.i = i]
  PROVE  /\ TaskRecord(u) /\ u.op = t.op /\ u.n = t.n /\ u.i = i /\ u.val = t.val
         /\ u.bad = t.bad /\ u.torn = t.torn
<1>1. /\ t.op \in {"idle", "read", "write"}
      /\ t = [op |-> t.op, n |-> t.n, i |-> t.i, val |-> t.val, bad |-> t.bad, torn |-> t.torn]
  BY DEF TaskRecord
<1>2. u = [op |-> t.op, n |-> t.n, i |-> i, val |-> t.val, bad |-> t.bad, torn |-> t.torn]
  BY SMT, <1>1
<1> QED  BY SMT, <1>1, <1>2, TaskMade

LEMMA TaskHolds ==
  ASSUME NEW t, TaskRecord(t), NEW v, NEW u, u = [t EXCEPT !.val = v]
  PROVE  /\ TaskRecord(u) /\ u.op = t.op /\ u.n = t.n /\ u.i = t.i /\ u.val = v
         /\ u.bad = t.bad /\ u.torn = t.torn
<1>1. /\ t.op \in {"idle", "read", "write"}
      /\ t = [op |-> t.op, n |-> t.n, i |-> t.i, val |-> t.val, bad |-> t.bad, torn |-> t.torn]
  BY DEF TaskRecord
<1>2. u = [op |-> t.op, n |-> t.n, i |-> t.i, val |-> v, bad |-> t.bad, torn |-> t.torn]
  BY SMT, <1>1
<1> QED  BY SMT, <1>1, <1>2, TaskMade

LEMMA TaskTorn ==
  ASSUME NEW t, TaskRecord(t), NEW b, NEW u, u = [t EXCEPT !.torn = b]
  PROVE  /\ TaskRecord(u) /\ u.op = t.op /\ u.n = t.n /\ u.i = t.i /\ u.val = t.val
         /\ u.bad = t.bad /\ u.torn = b
<1>1. /\ t.op \in {"idle", "read", "write"}
      /\ t = [op |-> t.op, n |-> t.n, i |-> t.i, val |-> t.val, bad |-> t.bad, torn |-> t.torn]
  BY DEF TaskRecord
<1>2. u = [op |-> t.op, n |-> t.n, i |-> t.i, val |-> t.val, bad |-> t.bad, torn |-> b]
  BY SMT, <1>1
<1> QED  BY SMT, <1>1, <1>2, TaskMade

\* A word is read.
LEMMA ReadWordGathers ==
  ASSUME Shape, Shape', NoTwins, Made, Led, Entries, Resting, Gathered, Refresher, ReadWord
  PROVE  Gathered'
<1>1. /\ task.op = "read" /\ task.i > 0 /\ poll' = poll /\ PLCvec' = PLCvec
  BY Zenon DEF ReadWord
<1>2. /\ task.n \in DOMAIN REGmap /\ task.i \in 0 .. 4
      /\ task.val = [i \in Place |-> task.val[i]]
      /\ poll.op = "copy" /\ ~task.torn => poll.left = Addresses
  BY <1>1 DEF Gathered
<1>3. PICK n, j, p, e, w, v :
        /\ n = task.n /\ j = task.i - 1 /\ p = Entry(n).ptr[j]
        /\ e = (IF p = Null THEN Entry(n).var_errors ELSE Reg(p).rerrors)
        /\ w = (IF p = Null \/ e THEN BadReg ELSE Reg(p).rvalue)
        /\ v = [task.val EXCEPT ![j] = w]
  OBVIOUS
<1>4. task' = [task EXCEPT !.i = j, !.val[j] = w]
  BY Zenon, <1>3 DEF ReadWord
<1>5. task' = [task EXCEPT !.i = j, !.val = v]
  BY Zenon, <1>3, <1>4
<1>6. TaskRecord(task)
  BY DEF Resting
<1>7. /\ task'.op = "read" /\ task'.n = n /\ task'.i = j /\ task'.val = v
      /\ task'.bad = task.bad /\ task'.torn = task.torn
  <2>1. /\ task'.op = task.op /\ task'.n = task.n /\ task'.i = j /\ task'.val = v
        /\ task'.bad = task.bad /\ task'.torn = task.torn
    <3>1. PICK s : s = [task EXCEPT !.i = j]
      OBVIOUS
    <3>2. task' = [s EXCEPT !.val = v]
      BY Zenon, <1>5, <3>1
    <3>3. /\ TaskRecord(s) /\ s.op = task.op /\ s.n = task.n /\ s.i = j
          /\ s.bad = task.bad /\ s.torn = task.torn
      BY SMT, <1>6, <3>1, TaskAt
    <3>4. /\ task'.op = s.op /\ task'.n = s.n /\ task'.i = s.i /\ task'.val = v
          /\ task'.bad = s.bad /\ task'.torn = s.torn
      BY SMT, <3>2, <3>3, TaskHolds
    <3> QED  BY Zenon, <3>3, <3>4
  <2> QED  BY Zenon, <1>1, <1>3, <2>1
<1>8. j \in Place /\ j \in 0 .. 4 /\ j + 1 = task.i
  BY SMT, <1>1, <1>2, <1>3 DEF Place
<1>9. /\ v = [i \in Place |-> v[i]]
      /\ \A i \in Place : v[i] = IF i = j THEN w ELSE task.val[i]
  <2>1. PICK t : t = task.val
    OBVIOUS
  <2>2. t = [i \in Place |-> t[i]] /\ v = [t EXCEPT ![j] = w]
    BY Zenon, <1>2, <1>3, <2>1
  <2>3. /\ v = [i \in Place |-> v[i]]
        /\ \A i \in Place : v[i] = IF i = j THEN w ELSE t[i]
    BY Zenon, <1>8, <2>2
  <2> QED  BY Zenon, <2>1, <2>3
<1>10. /\ n \in DOMAIN REGmap' /\ REGmap'[n].prop = REGmap[n].prop
       /\ REGmap'[n].ptr = REGmap[n].ptr
  BY <1>2, <1>3, TablesKept
<1>11. Addresses' = Addresses /\ Words(n)' = Words(n)
  BY <1>10, SetsKept DEF Words, Entry
<1>12. AtOnce(task.n, task.bad)' <=> AtOnce(task.n, task.bad)
  BY <1>3, <1>7, <1>10 DEF AtOnce, Entry
<1>13. ASSUME ~task.torn, ~AtOnce(task.n, task.bad), NEW i \in Words(n), i >= j,
              NEW q, q = REGmap[n].ptr[i], q # Null, ~Reg(q).rerrors
       PROVE  v[i] = Reg(q).rvalue
  <2>1. i \in Place
    BY <1>2, <1>3, WordPlace
  <2>2. CASE i = j
    <3>1. q = p
      BY <1>3, <1>13, <2>2 DEF Entry
    <3>2. ~e /\ p # Null
      BY <1>3, <1>13, <3>1
    <3>3. w = Reg(q).rvalue
      BY <1>3, <3>1, <3>2
    <3> QED  BY <1>9, <2>1, <2>2, <3>3
  <2>3. CASE i # j
    <3>1. i >= task.i
      BY SMT, <1>8, <1>13, <2>1, <2>3 DEF Place
    <3>2. task.val[i] = Reg(q).rvalue
      BY <1>1, <1>3, <1>13, <3>1 DEF Gathered, Entry
    <3> QED  BY <1>9, <2>1, <2>3, <3>2
  <2> QED  BY <2>2, <2>3
<1>14. ~task.torn /\ ~AtOnce(task.n, task.bad) =>
         \A i \in Words(n) : LET q == REGmap'[n].ptr[i] IN
           i >= j /\ q # Null /\ ~PLCvec'[q.plc].regs[q.addr].rerrors =>
             v[i] = PLCvec'[q.plc].regs[q.addr].rvalue
  <2>1. \A q : PLCvec'[q.plc].regs[q.addr] = Reg(q)
    BY <1>1 DEF Reg
  <2> QED  BY Zenon, <1>10, <1>13, <2>1
<1>15. task'.val = [i \in Place |-> task'.val[i]]
  BY <1>7, <1>9
<1>16. poll'.op = "copy" /\ ~task'.torn => poll'.left = Addresses'
  BY <1>1, <1>2, <1>7, <1>11
<1>17. task'.n \in DOMAIN REGmap' /\ task'.i \in 0 .. 4
  BY <1>7, <1>8, <1>10
<1>18. ASSUME ~task'.torn, ~AtOnce(task.n, task.bad)'
       PROVE  \A i \in Words(task.n)' : LET q == REGmap'[task'.n].ptr[i] IN
                i >= task'.i /\ q # Null /\ ~PLCvec'[q.plc].regs[q.addr].rerrors =>
                  task'.val[i] = PLCvec'[q.plc].regs[q.addr].rvalue
  <2>1. Words(task.n)' = Words(n)
    BY <1>7, <1>11 DEF Words, Entry
  <2>2. ~task.torn /\ ~AtOnce(task.n, task.bad)
    BY <1>7, <1>12, <1>18
  <2>3. \A i \in Words(n) : LET q == REGmap'[n].ptr[i] IN
           i >= j /\ q # Null /\ ~PLCvec'[q.plc].regs[q.addr].rerrors =>
             v[i] = PLCvec'[q.plc].regs[q.addr].rvalue
    BY <1>14, <2>2
  <2> QED  BY Zenon, <1>7, <2>1, <2>3
<1> QED
  BY Zenon, <1>15, <1>16, <1>17, <1>18 DEF Gathered, Reg, Entry

LEMMA ReadBeginsGathers ==
  ASSUME Shape, Shape', Entries, NEW n \in Watched, ReadBegins(n), Refresher
  PROVE  Gathered'
<1>1. n \in DOMAIN REGmap
  BY DEF Watched
<1>2. PICK z, e, i, r :
        /\ e = get_plc_errors(n) /\ z = Entry(n).prop.rsize /\ r = (poll.op = "copy")
        /\ i = IF Entry(n).prop.rsize = 1 /\ (e \/ Entry(n).prop.rtype \in {"HEX", "BINARY"})
               THEN 0 ELSE Entry(n).prop.rsize
  OBVIOUS
<1>3. task' = [op |-> "read", n |-> n, i |-> i, val |-> Blank, bad |-> e, torn |-> r]
  BY SMT, <1>2 DEF ReadBegins
<1>4. /\ task'.op = "read" /\ task'.n = n /\ task'.i = i /\ task'.val = Blank
      /\ task'.bad = e /\ task'.torn = r
  BY <1>3, TaskMade
<1>5. poll' = poll /\ REGmap' = REGmap
  BY Zenon DEF ReadBegins, config
<1>6. z \in {0, 1, 2, 4}
  BY <1>1, <1>2, RowParts DEF Entries, Entered, Entry
<1>7. i \in 0 .. 4
  BY SMT, <1>2, <1>6
<1>8. AtOnce(task.n, task.bad)' <=> AtOnce(n, e)
  BY <1>2, <1>4, <1>5 DEF AtOnce, Entry
<1>9. ASSUME ~AtOnce(n, e), NEW j \in Words(n)' PROVE ~(j >= i)
  <2>1. Words(n)' = 0 .. z - 1
    BY <1>2, <1>5 DEF Words, Entry
  <2>2. i = z
    BY <1>2, <1>9 DEF AtOnce
  <2> QED  BY SMT, <1>6, <1>9, <2>1, <2>2
<1>10. task'.val = [j \in Place |-> task'.val[j]]
  BY <1>4 DEF Blank
<1>11. poll'.op = "copy" => task'.torn
  BY <1>2, <1>4, <1>5
<1> QED  BY Zenon, <1>1, <1>4, <1>5, <1>7, <1>8, <1>9, <1>10, <1>11 DEF Gathered

LEMMA RunGathers ==
  ASSUME Shape, Shape', NoTwins, Made, Led, Entries, Resting, Devices, Gathered,
         Poller \/ Refresher
  PROVE  Gathered'
<1>1. CASE Poller
  <2>1. pc = "run"
    BY <1>1, Running
  <2>2. Addresses' = Addresses
    BY SetsKept
  <2>3. CASE PLCvec' = PLCvec /\ task' = task /\ (poll'.op = "copy" => poll'.left = Addresses)
    BY Zenon, <2>3, GatheredKept
  <2>4. ASSUME NEW now, PollAnswered(now) PROVE Gathered'
    <3>1. /\ task' = task /\ PLCvec' = PLCvec
          /\ poll' = [op |-> "copy", buf |-> now, left |-> Addresses]
      BY <2>4 DEF PollAnswered, config
    <3>2. poll'.left = Addresses
      BY SMT, <3>1
    <3> QED  BY <2>3, <3>1, <3>2
  <2>5. CASE PollFails
    <3>1. /\ Rerrors(TRUE) /\ task' = task /\ poll' = poll /\ poll.op = "idle" /\ pc' = pc
          /\ Addresses # {}
      BY <2>1, <2>5 DEF PollFails, loaded
    <3>2. /\ \A k \in DOMAIN PLCvec : \A a \in DOMAIN PLCvec[k].regs :
               PLCvec'[k].regs[a].rvalue = PLCvec[k].regs[a].rvalue
          /\ \A a \in Addresses : PLCvec'[1].regs[a].rerrors = TRUE
          /\ \A k \in DOMAIN PLCvec : k # 1 => PLCvec'[k] = PLCvec[k]
      BY Zenon, <3>1, MarksKeep DEF Devices
    <3>3. ASSUME NEW k \in DOMAIN PLCvec, NEW a \in DOMAIN PLCvec[k].regs,
                 ~PLCvec'[k].regs[a].rerrors
          PROVE  /\ ~PLCvec[k].regs[a].rerrors
                 /\ PLCvec'[k].regs[a].rvalue = PLCvec[k].regs[a].rvalue
      <4>1. CASE k = 1
        BY <3>2, <3>3, <4>1, FirstPlc
      <4>2. CASE k # 1
        BY <3>2, <3>3, <4>2
      <4> QED  BY <4>1, <4>2
    <3>4. poll'.op # "copy"
      BY <3>1
    <3> QED  BY Zenon, <3>1, <3>3, <3>4, GatheredKept
  <2>6. CASE CopyReg
    <3>1. \E w : Stored(At(First(poll.left)), w)
      BY Zenon, <2>6 DEF CopyReg
    <3>2. PICK b : b = (task.torn \/ task.op = "read")
      OBVIOUS
    <3>3. task' = [task EXCEPT !.torn = b]
      BY <3>1, <3>2 DEF Stored
    <3>4. TaskRecord(task)
      BY DEF Resting
    <3>5. /\ task'.op = task.op /\ task'.n = task.n /\ task'.i = task.i /\ task'.val = task.val
          /\ task'.torn = b
      BY SMT, <3>3, <3>4, TaskTorn
    <3>6. DOMAIN REGmap' = DOMAIN REGmap
      BY TablesKept
    <3>7. ASSUME task.op = "read"
          PROVE  /\ task.n \in DOMAIN REGmap /\ task.i \in 0 .. 4
                 /\ task.val = [i \in Place |-> task.val[i]] /\ b
      BY <3>2, <3>7 DEF Gathered
    <3> QED  BY <3>5, <3>6, <3>7 DEF Gathered
  <2>7. CASE CopyEnds
    <3>1. /\ poll.op = "copy" /\ poll.left = {} /\ task' = task
          /\ poll' = [op |-> "write", buf |-> Empty, left |-> Addresses]
      BY <2>7 DEF CopyEnds
    <3>2. Addresses # {}
      BY <2>1, <3>1 DEF Devices, Polling
    <3>3. task.op = "read" => task.torn
      BY <3>1, <3>2 DEF Gathered
    <3>4. poll'.op # "copy"
      BY SMT, <3>1
    <3> QED  BY Zenon, <3>1, <3>3, <3>4, GatheredKept
  <2>8. ASSUME NEW ok \in BOOLEAN, WriteReg(ok) PROVE Gathered'
    <3>1. task' = task
      BY <2>8 DEF WriteReg
    <3>2. PICK a \in poll.left : \E r, s :
            /\ a \in Addresses /\ r = PLCvec[1].regs[a]
            /\ s = With(r, r.rvalue, ~ok, ~ok)
            /\ IF r.rupdate THEN Only(PLCvec, PLCvec', 1, a, s) ELSE PLCvec' = PLCvec
            /\ ~r.rerrors
            /\ poll' = [op |-> "write", buf |-> poll.buf, left |-> poll.left \ {a}]
      BY Zenon, <2>8, WriteEffect
    <3>3. PICK r, s :
            /\ a \in Addresses /\ r = PLCvec[1].regs[a]
            /\ s = With(r, r.rvalue, ~ok, ~ok)
            /\ IF r.rupdate THEN Only(PLCvec, PLCvec', 1, a, s) ELSE PLCvec' = PLCvec
            /\ ~r.rerrors
            /\ poll' = [op |-> "write", buf |-> poll.buf, left |-> poll.left \ {a}]
      BY <3>2
    <3>4. poll'.op # "copy"
      BY SMT, <3>3
    <3>5. s.rvalue = r.rvalue
      BY SMT, <3>3 DEF With
    <3>6. ASSUME NEW k \in DOMAIN PLCvec, NEW c \in DOMAIN PLCvec[k].regs,
                 ~PLCvec'[k].regs[c].rerrors
          PROVE  /\ ~PLCvec[k].regs[c].rerrors
                 /\ PLCvec'[k].regs[c].rvalue = PLCvec[k].regs[c].rvalue
      <4>1. CASE PLCvec' = PLCvec
        BY <3>6, <4>1
      <4>2. CASE Only(PLCvec, PLCvec', 1, a, s)
        <5>1. CASE k = 1 /\ c = a
          <6>1. PLCvec'[k].regs[c] = s
            BY Zenon, <4>2, <5>1 DEF Only
          <6> QED  BY <3>3, <3>5, <5>1, <6>1
        <5>2. CASE ~(k = 1 /\ c = a)
          <6>1. PLCvec'[k].regs[c] = PLCvec[k].regs[c]
            BY Zenon, <4>2, <5>2 DEF Only
          <6> QED  BY <3>6, <6>1
        <5> QED  BY <5>1, <5>2
      <4> QED  BY <3>3, <4>1, <4>2
    <3> QED  BY Zenon, <3>1, <3>4, <3>6, GatheredKept
  <2>9. CASE WriteEnds
    <3>1. PLCvec' = PLCvec /\ task' = task /\ poll' = NoPoll
      BY <2>9 DEF WriteEnds, config
    <3>2. poll'.op # "copy"
      BY SMT, <3>1 DEF NoPoll
    <3> QED  BY <2>3, <3>1, <3>2
  <2> QED  BY Zenon, <1>1, <2>4, <2>5, <2>6, <2>7, <2>8, <2>9 DEF Poller
<1>2. CASE Refresher
  <2>1. ASSUME NEW n \in Watched, ReadBegins(n) PROVE Gathered'
    BY Zenon, <1>2, <2>1, ReadBeginsGathers
  <2>2. CASE ReadWord
    BY Zenon, <1>2, <2>2, ReadWordGathers
  <2>3. ASSUME task'.op # "read" PROVE Gathered'
    BY <2>3 DEF Gathered
  <2>4. ASSUME NEW n, NEW v, WriteBegins(n, v) PROVE Gathered'
    <3>1. task' = [op |-> "write", n |-> n, i |-> 0, val |-> v, bad |-> FALSE, torn |-> FALSE]
      BY Zenon, <2>4 DEF WriteBegins
    <3>2. task'.op = "write"
      BY SMT, <3>1
    <3> QED  BY <2>3, <3>2
  <2>5. CASE WriteWord
    <3>1. task.op = "write" /\ task' = [task EXCEPT !.i = task.i + 1]
      BY Zenon, <2>5 DEF WriteWord
    <3>2. TaskRecord(task)
      BY DEF Resting
    <3>3. PICK j : j = task.i + 1
      OBVIOUS
    <3>4. task' = [task EXCEPT !.i = j]
      BY Zenon, <3>1, <3>3
    <3>5. task'.op = task.op
      BY SMT, <3>2, <3>4, TaskAt
    <3> QED  BY <2>3, <3>1, <3>5
  <2>6. CASE ReadEnds \/ WriteDone \/ \E n \in Watched : \E v \in OpcValues(n) : TakeOpc(n, v)
    <3>1. task' = NoTask \/ (task' = task /\ task.op = "idle")
      BY Zenon, <2>6 DEF ReadEnds, WriteDone, TakeOpc
    <3>2. NoTask.op = "idle"
      BY SMT DEF NoTask
    <3>3. task'.op = "idle"
      BY <3>1, <3>2
    <3> QED  BY <2>3, <3>3
  <2> QED  BY Zenon, <1>2, <2>1, <2>2, <2>4, <2>5, <2>6 DEF Refresher
<1> QED  BY <1>1, <1>2

-----------------------------------------------------------------------------
(* Commands that stand.                                                    *)

LEMMA RunningBoth ==
  ASSUME Poller \/ Refresher, Resting
  PROVE  pc = "run" /\ pc' = pc
<1>1. pc' = pc
  BY PlacesKept
<1>2. CASE Poller
  BY <1>2, Running
<1>3. CASE Refresher
  <2>1. pc = "run" \/ task.op \in {"read", "write"}
    BY Zenon, <1>3 DEF Refresher, ReadBegins, WriteBegins, ReadWord, ReadEnds, WriteWord,
       WriteDone, TakeOpc
  <2> QED  BY <1>1, <2>1 DEF Resting
<1> QED  BY <1>2, <1>3

\* One that was not overruled: its registers were not changed, or get its words.
LEMMA StandsStill ==
  ASSUME Shape, Shape', Poller \/ Refresher, NEW n \in DOMAIN REGmap, Stands(n),
         cmd'[n] = cmd[n],
         \A i \in Words(n) : \A p :
           p = Entry(n).ptr[i] /\ p # Null /\ Reached(n, i)' /\ cmd[n] # Blank =>
             \/ Reached(n, i) /\ PLCvec'[p.plc].regs[p.addr].rvalue = Reg(p).rvalue
             \/ PLCvec'[p.plc].regs[p.addr].rvalue = cmd[n][i]
  PROVE  Stands(n)'
<1>1. Words(n)' = Words(n) /\ Commands(n)' = Commands(n) /\ REGmap'[n].ptr = REGmap[n].ptr
  BY SetsKept, TablesKept
<1>2. ASSUME cmd[n] # Blank, NEW i \in Words(n), NEW p, p = REGmap[n].ptr[i], p # Null,
             Reached(n, i)'
      PROVE  PLCvec'[p.plc].regs[p.addr].rvalue = cmd[n][i]
  <2>1. p = Entry(n).ptr[i]
    BY <1>2 DEF Entry
  <2>2. CASE Reached(n, i) /\ PLCvec'[p.plc].regs[p.addr].rvalue = Reg(p).rvalue
    BY Zenon, <1>2, <2>1, <2>2 DEF Stands
  <2> QED  BY Zenon, <1>2, <2>1, <2>2
<1>3. cmd[n] # Blank => cmd[n] \in Commands(n)
  BY DEF Stands
<1> QED  BY Zenon, <1>1, <1>2, <1>3 DEF Stands, Entry, Reg

\* The two ways in which a word of a register is changed.
LEMMA OverruledStands ==
  ASSUME Shape, Shape', NoTwins, Made, Led, Entries, Poller \/ Refresher,
         NEW n \in DOMAIN REGmap, n \in DOMAIN cmd, Stands(n),
         NEW p, Exists(p), p = [buf |-> buffer, plc |-> p.plc, addr |-> p.addr], NEW s,
         Only(PLCvec, PLCvec', p.plc, p.addr, s), NEW m, n # m, Overruled(p, m),
         \A i \in Words(n) : Reached(n, i)' => Reached(n, i)
  PROVE  n \in DOMAIN cmd' /\ Stands(n)'
<1>1. n \in DOMAIN cmd'
      /\ cmd'[n] = IF p \in Pointers(n) THEN Blank ELSE cmd[n]
  BY Zenon DEF Overruled
<1>2. CASE p \in Pointers(n)
  BY Zenon, <1>1, <1>2 DEF Stands, Blank
<1>3. CASE p \notin Pointers(n)
  <2>1. ASSUME NEW i \in Words(n), NEW q, q = Entry(n).ptr[i], q # Null, Reached(n, i)'
        PROVE  Reached(n, i) /\ PLCvec'[q.plc].regs[q.addr].rvalue = Reg(q).rvalue
    <3>1. i \in Place /\ q = REGmap[n].ptr[i]
      BY <2>1, WordPlace DEF Entry
    <3>2. Exists(q) /\ q = [buf |-> buffer, plc |-> q.plc, addr |-> q.addr]
      BY <2>1, <3>1, PointerForm
    <3>3. q # p
      BY <1>3, <2>1, <3>1 DEF Pointers
    <3>4. ~(q.plc = p.plc /\ q.addr = p.addr)
      BY Zenon, <3>2, <3>3
    <3>5. q.plc \in DOMAIN PLCvec /\ q.addr \in DOMAIN PLCvec[q.plc].regs
      BY <3>2 DEF Exists
    <3>6. PLCvec'[q.plc].regs[q.addr] = PLCvec[q.plc].regs[q.addr]
      BY Zenon, <3>4, <3>5 DEF Only
    <3> QED  BY <2>1, <3>6 DEF Reg
  <2>2. cmd'[n] = cmd[n]
    BY <1>1, <1>3
  <2> QED  BY Zenon, <1>1, <2>1, <2>2, StandsStill
<1> QED  BY <1>2, <1>3

\* Giving, where the command and what the task does with it are kept.
LEMMA GivingKept ==
  ASSUME Shape, Shape', NoTwins, Made, Led, Poller \/ Refresher, Giving,
         DOMAIN cmd \subseteq DOMAIN REGmap,
         task.op = "write" /\ task'.op = "write" => 
           /\ task'.n = task.n /\ task'.val = task.val /\ task'.i \in Nat
           /\ task.n \in DOMAIN cmd' /\ (cmd'[task.n] # Blank => cmd'[task.n] = cmd[task.n]),
         task.op # "write" => task'.op # "write"
  PROVE  Giving'
<1> SUFFICES ASSUME task'.op = "write"
             PROVE  /\ task'.n \in DOMAIN cmd' /\ task'.i \in Nat
                    /\ task'.val \in Commands(task.n)'
                    /\ cmd'[task'.n] # Blank => /\ cmd'[task'.n] = task'.val
                                               /\ \A p \in Pointers(task.n)' : Reg(p)'.rmode
  BY Zenon DEF Giving
<1>1. PICK n : n = task.n
  OBVIOUS
<1>2. /\ task'.n = n /\ task'.val = task.val /\ task'.i \in Nat
      /\ n \in DOMAIN cmd' /\ (cmd'[n] # Blank => cmd'[n] = cmd[n])
  BY <1>1
<1>3. /\ n \in DOMAIN cmd /\ task.val \in Commands(n)
      /\ cmd[n] # Blank => /\ cmd[n] = task.val
                           /\ \A p \in Pointers(n) : Reg(p).rmode
  BY <1>1 DEF Giving
<1>4. n \in DOMAIN REGmap
  BY <1>3
<1>5. Pointers(n)' = Pointers(n) /\ Commands(n)' = Commands(n) /\ REGmap'[n] \in {REGmap'[n]}
      /\ REGmap'[n].prop = REGmap[n].prop /\ REGmap'[n].ptr = REGmap[n].ptr
  BY <1>4, SetsKept, TablesKept
<1>6. Pointers(task.n)' = Pointers(n) /\ Commands(task.n)' = Commands(n)
  BY <1>2, <1>5 DEF Pointers, Commands, Entry
<1>7. ASSUME NEW p \in Pointers(n) PROVE Reg(p)'.rmode = Reg(p).rmode
  <2>1. Exists(p)
    <3>1. PICK i \in Place : p = REGmap[n].ptr[i]
      BY DEF Pointers
    <3>2. p # Null
      BY DEF Pointers
    <3> QED  BY <1>4, <3>1, <3>2, PointerForm
  <2> QED  BY Zenon, <2>1, TablesKept DEF Exists, Reg
<1> QED  BY Zenon, <1>2, <1>3, <1>6, <1>7

\* Nothing is written.
LEMMA QuietCommanding ==
  ASSUME Shape, Shape', NoTwins, Made, Led, Entries, Poller \/ Refresher, Resting, Commanding,
         cmd' = cmd,
         \A k \in DOMAIN PLCvec : \A a \in DOMAIN PLCvec[k].regs :
           PLCvec'[k].regs[a].rvalue = PLCvec[k].regs[a].rvalue,
         task'.op = "write" => /\ task.op = "write" /\ task'.n = task.n
                               /\ task'.val = task.val /\ task'.i = task.i,
         task.op = "write" /\ task'.op # "write" => \A i \in Words(task.n) : i < task.i
  PROVE  Commanding'
<1>1. pc = "run" /\ pc' = pc /\ Watched' = Watched
  BY RunningBoth, SetsKept
<1>2. DOMAIN cmd = Watched /\ DOMAIN cmd \subseteq DOMAIN REGmap
  BY <1>1 DEF Commanding, Watched
<1>3. Giving'
  <2>1. Giving
    BY DEF Commanding
  <2>2. task.op = "write" => task.i \in Nat /\ task.n \in DOMAIN cmd
    BY <2>1 DEF Giving
  <2> QED  BY <1>2, <2>1, <2>2, GivingKept
<1>4. ASSUME NEW n \in DOMAIN cmd PROVE Stands(n)'
  <2>1. n \in DOMAIN REGmap /\ Stands(n)
    BY <1>2 DEF Commanding, Standing
  <2>2. ASSUME NEW i \in Words(n), NEW p, p = Entry(n).ptr[i], p # Null, Reached(n, i)'
        PROVE  Reached(n, i) /\ PLCvec'[p.plc].regs[p.addr].rvalue = Reg(p).rvalue
    <3>1. Reached(n, i)
      BY <2>2 DEF Reached
    <3>2. i \in Place /\ p = REGmap[n].ptr[i]
      BY <2>1, <2>2, WordPlace DEF Entry
    <3>3. Exists(p)
      BY <2>1, <2>2, <3>2, PointerForm
    <3> QED  BY Zenon, <3>1, <3>3 DEF Exists, Reg
  <2>3. cmd'[n] = cmd[n]
    OBVIOUS
  <2> QED  BY Zenon, <2>1, <2>2, <2>3, StandsStill
<1> QED  BY Zenon, <1>1, <1>2, <1>3, <1>4 DEF Commanding, Standing

\* The answer puts another word into a register.
LEMMA CopyCommanding ==
  ASSUME Shape, Shape', NoTwins, Made, Led, Entries, Poller \/ Refresher, Resting, Devices,
         Commanding, Keyed, CopyReg
  PROVE  Commanding'
<1>1. pc = "run" /\ pc' = pc /\ Watched' = Watched
  BY RunningBoth, SetsKept
<1>2. DOMAIN cmd = Watched /\ DOMAIN cmd \subseteq DOMAIN REGmap
  BY <1>1 DEF Commanding, Watched
<1>3. /\ 1 \in DOMAIN PLCvec /\ Addresses = DOMAIN PLCvec[1].regs
      /\ \E a \in poll.left : \E r, s :
           /\ a \in Addresses /\ r = PLCvec[1].regs[a]
           /\ Reg(At(a)) = r
           /\ Only(PLCvec, PLCvec', 1, a, s)
           /\ Stored(At(a), s.rvalue)
  BY Zenon, CopyEffect
<1>4. PICK a, r, s : /\ a \in Addresses /\ r = PLCvec[1].regs[a] /\ Reg(At(a)) = r
                     /\ Only(PLCvec, PLCvec', 1, a, s) /\ Stored(At(a), s.rvalue)
  BY Zenon, <1>3
<1>5. PICK b : b = (task.torn \/ task.op = "read")
  OBVIOUS
<1>6. task' = [task EXCEPT !.torn = b]
  BY Zenon, <1>4, <1>5 DEF Stored
<1>7. TaskRecord(task)
  BY DEF Resting
<1>8. task'.op = task.op /\ task'.n = task.n /\ task'.i = task.i /\ task'.val = task.val
  BY SMT, <1>6, <1>7, TaskTorn
<1>9. CASE r.rvalue = s.rvalue
  <2>1. cmd' = cmd
    BY Zenon, <1>4, <1>9 DEF Stored
  <2>2. ASSUME NEW k \in DOMAIN PLCvec, NEW c \in DOMAIN PLCvec[k].regs
        PROVE  PLCvec'[k].regs[c].rvalue = PLCvec[k].regs[c].rvalue
    <3>1. CASE k = 1 /\ c = a
      BY Zenon, <1>4, <1>9, <2>2, <3>1 DEF Only
    <3>2. CASE ~(k = 1 /\ c = a)
      BY Zenon, <1>4, <2>2, <3>2 DEF Only
    <3> QED  BY <3>1, <3>2
  <2> QED  BY Zenon, <1>8, <2>1, <2>2, QuietCommanding
<1>10. CASE r.rvalue # s.rvalue
  <2>1. PICK p : p = At(a)
    OBVIOUS
  <2>2. p = [buf |-> buffer, plc |-> 1, addr |-> a]
    BY <2>1 DEF At
  <2>3. p.buf = buffer /\ p.plc = 1 /\ p.addr = a
    BY SMT, <2>2
  <2>4. Exists(p)
    BY <1>3, <1>4, <2>3 DEF Exists
  <2>5. Overruled(p, NoSource)
    BY Zenon, <1>4, <1>10, <2>1 DEF Stored
  <2>6. p = [buf |-> buffer, plc |-> p.plc, addr |-> p.addr]
    BY Zenon, <2>2, <2>3
  <2>7. Only(PLCvec, PLCvec', p.plc, p.addr, s)
    BY Zenon, <1>4, <2>3
  <2>8. ASSUME NEW n \in DOMAIN cmd PROVE n \in DOMAIN cmd' /\ Stands(n)'
    <3>1. n \in DOMAIN REGmap /\ Stands(n)
      BY <1>2 DEF Commanding, Standing
    <3>2. n # NoSource
      <4>1. n = FullName(n[1], n[2])
        BY <3>1 DEF Keyed
      <4> QED  BY <4>1 DEF FullName, NoSource
    <3>3. \A i \in Words(n) : Reached(n, i)' => Reached(n, i)
      BY <1>8 DEF Reached
    <3> QED  BY Zenon, <2>4, <2>5, <2>6, <2>7, <3>1, <3>2, <3>3, OverruledStands
  <2>9. DOMAIN cmd' = DOMAIN cmd
        /\ \A n \in DOMAIN cmd : cmd'[n] # Blank => cmd'[n] = cmd[n]
    BY Zenon, <2>5 DEF Overruled
  <2>10. Giving'
    <3>1. Giving
      BY DEF Commanding
    <3>2. task.op = "write" => task.i \in Nat /\ task.n \in DOMAIN cmd
      BY <3>1 DEF Giving
    <3> QED  BY <1>2, <1>8, <2>9, <3>1, <3>2, GivingKept
  <2> QED  BY Zenon, <1>1, <1>2, <2>8, <2>9, <2>10 DEF Commanding, Standing
<1> QED  BY <1>9, <1>10

\* A command begins.
LEMMA BeginsCommanding ==
  ASSUME Shape, Shape', NoTwins, Made, Led, Entries, Refresher, Resting, Commanding,
         NEW n \in Watched, NEW v \in Commands(n), WriteBegins(n, v)
  PROVE  Commanding'
<1>1. pc = "run" /\ pc' = pc /\ Watched' = Watched
  BY RunningBoth, SetsKept
<1>2. DOMAIN cmd = Watched /\ DOMAIN cmd \subseteq DOMAIN REGmap
  BY <1>1 DEF Commanding, Watched
<1>3. /\ task.op = "idle" /\ PLCvec' = PLCvec /\ REGmap' = REGmap
      /\ task' = [op |-> "write", n |-> n, i |-> 0, val |-> v, bad |-> FALSE, torn |-> FALSE]
      /\ cmd' = [cmd EXCEPT ![n] = IF \A p \in Pointers(n) : Reg(p).rmode THEN v ELSE Blank]
  BY Zenon DEF WriteBegins, config
<1>4. task'.op = "write" /\ task'.n = n /\ task'.i = 0 /\ task'.val = v
  BY SMT, <1>3
<1>5. /\ DOMAIN cmd' = DOMAIN cmd
      /\ cmd'[n] = IF \A p \in Pointers(n) : Reg(p).rmode THEN v ELSE Blank
      /\ \A m \in DOMAIN cmd : m # n => cmd'[m] = cmd[m]
  BY Zenon, <1>2, <1>3
<1>6. ASSUME NEW m PROVE Words(m)' = Words(m) /\ Commands(m)' = Commands(m)
                         /\ Pointers(m)' = Pointers(m)
  BY <1>3 DEF Words, Commands, Pointers, Entry
<1>7. Giving'
  <2>1. task'.n \in DOMAIN cmd' /\ task'.i \in Nat /\ task'.val \in Commands(task.n)'
    <3>1. Commands(task.n)' = Commands(n)
      BY <1>3, <1>4 DEF Commands, Entry
    <3> QED  BY <1>2, <1>4, <1>5, <3>1
  <2>2. ASSUME cmd'[task'.n] # Blank
        PROVE  cmd'[task'.n] = task'.val /\ \A p \in Pointers(task.n)' : Reg(p)'.rmode
    <3>1. (\A p \in Pointers(n) : Reg(p).rmode) /\ cmd'[n] = v
      BY Zenon, <1>4, <1>5, <2>2
    <3>2. Pointers(task.n)' = Pointers(n)
      BY <1>3, <1>4 DEF Pointers
    <3> QED  BY <1>3, <1>4, <3>1, <3>2 DEF Reg
  <2> QED  BY Zenon, <2>1, <2>2 DEF Giving
<1>8. ASSUME NEW m \in DOMAIN cmd, m # n PROVE Stands(m)'
  <2>1. m \in DOMAIN REGmap /\ Stands(m) /\ cmd'[m] = cmd[m]
    BY <1>2, <1>5, <1>8 DEF Commanding, Standing
  <2>2. ASSUME NEW i, NEW p
        PROVE  Reached(m, i) /\ PLCvec'[p.plc].regs[p.addr].rvalue = Reg(p).rvalue
    BY <1>3 DEF Reached, Reg
  <2> QED  BY Zenon, <2>1, <2>2, StandsStill
<1>9. Stands(n)'
  <2>1. cmd'[n] # Blank => cmd'[n] \in Commands(n)'
    BY <1>5, <1>6
  <2>2. ASSUME NEW i \in Words(n)' PROVE ~Reached(n, i)'
    <3>1. i \in 0 .. Entry(n).prop.rsize - 1
      BY <1>6, <2>2 DEF Words
    <3> QED  BY SMT, <1>4, <3>1 DEF Reached
  <2> QED  BY Zenon, <2>1, <2>2 DEF Stands
<1> QED  BY Zenon, <1>1, <1>2, <1>5, <1>7, <1>8, <1>9 DEF Commanding, Standing

\* A word of a command is written.
LEMMA WordCommanding ==
  ASSUME Shape, Shape', NoTwins, Made, Led, Entries, Refresher, Resting, Devices, Commanding,
         WriteWord
  PROVE  Commanding'
<1>1. pc = "run" /\ pc' = pc /\ Watched' = Watched
  BY RunningBoth, SetsKept
<1>2. DOMAIN cmd = Watched /\ DOMAIN cmd \subseteq DOMAIN REGmap
  BY <1>1 DEF Commanding, Watched
<1>3. PICK n, i, j : n = task.n /\ i = task.i /\ j = task.i + 1
  OBVIOUS
<1>4. task.op = "write"
  BY Zenon DEF WriteWord
<1>5. /\ n \in DOMAIN REGmap /\ n \in DOMAIN cmd /\ i \in Nat /\ task.val \in Commands(n)
      /\ cmd[n] # Blank => /\ cmd[n] = task.val
                           /\ \A p \in Pointers(n) : Reg(p).rmode
  BY <1>2, <1>3, <1>4 DEF Commanding, Giving
<1>6. Objects
  BY DEF Devices
<1>7. /\ i \in Words(n)
      /\ \E p, w, r, s :
           /\ p = Entry(n).ptr[i] /\ w = task.val[i]
           /\ \/ /\ p # Null /\ Exists(p) /\ r = Reg(p) /\ r.rmode /\ r.rvalue # w
                 /\ s = With(r, w, TRUE, r.rerrors)
                 /\ Only(PLCvec, PLCvec', p.plc, p.addr, s)
                 /\ Overruled(p, n)
              \/ /\ p = Null \/ ~Reg(p).rmode \/ Reg(p).rvalue = w
                 /\ UNCHANGED <<PLCvec, cmd>>
      /\ task' = [task EXCEPT !.i = j]
  <2>1. /\ task.i \in Words(task.n)
        /\ \E p, w, r, s :
             /\ p = Entry(task.n).ptr[task.i] /\ w = task.val[task.i]
             /\ \/ /\ p # Null /\ Exists(p) /\ r = Reg(p) /\ r.rmode /\ r.rvalue # w
                   /\ s = With(r, w, TRUE, r.rerrors)
                   /\ Only(PLCvec, PLCvec', p.plc, p.addr, s)
                   /\ Overruled(p, task.n)
                \/ /\ p = Null \/ ~Reg(p).rmode \/ Reg(p).rvalue = w
                   /\ UNCHANGED <<PLCvec, cmd>>
        /\ task' = [task EXCEPT !.i = task.i + 1]
    BY <1>3, <1>5, <1>6, CommandEffect
  <2>2. task' = [task EXCEPT !.i = j]
    BY Zenon, <1>3, <2>1
  <2> QED  BY Zenon, <1>3, <2>1, <2>2
<1>8. TaskRecord(task)
  BY DEF Resting
<1>9. task'.op = "write" /\ task'.n = n /\ task'.i = j /\ task'.val = task.val
  <2>1. task'.op = task.op /\ task'.n = task.n /\ task'.i = j /\ task'.val = task.val
    BY SMT, <1>7, <1>8, TaskAt
  <2> QED  BY <1>3, <1>4, <2>1
<1>10. i \in Place /\ j \in Nat
  BY SMT, <1>3, <1>5, <1>7, WordPlace
<1>11. PICK p, w, r, s :
         /\ p = Entry(n).ptr[i] /\ w = task.val[i]
         /\ \/ /\ p # Null /\ Exists(p) /\ r = Reg(p) /\ r.rmode /\ r.rvalue # w
               /\ s = With(r, w, TRUE, r.rerrors)
               /\ Only(PLCvec, PLCvec', p.plc, p.addr, s)
               /\ Overruled(p, n)
            \/ /\ p = Null \/ ~Reg(p).rmode \/ Reg(p).rvalue = w
               /\ UNCHANGED <<PLCvec, cmd>>
  BY <1>7
<1>12. ASSUME NEW m, m # n PROVE \A k \in Words(m) : Reached(m, k)' => Reached(m, k)
  BY <1>3, <1>9, <1>12 DEF Reached
<1>13. ASSUME NEW k \in Words(n), k # i, Reached(n, k)' PROVE Reached(n, k)
  <2>1. k \in Place /\ k < j
    BY <1>5, <1>9, <1>13, WordPlace DEF Reached
  <2>2. k < i
    BY SMT, <1>3, <1>5, <1>13, <2>1 DEF Place
  <2> QED  BY <1>3, <2>2 DEF Reached
<1>14. ASSUME NEW k \in Words(n), NEW q, q = Entry(n).ptr[k], q # Null
       PROVE  /\ q \in Pointers(n) /\ Exists(q) /\ k \in Place /\ (k # i => q # p)
              /\ q = [buf |-> buffer, plc |-> q.plc, addr |-> q.addr]
  <2>1. k \in Place /\ q = REGmap[n].ptr[k]
    BY <1>5, <1>14, WordPlace DEF Entry
  <2>2. /\ Exists(q) /\ q = [buf |-> buffer, plc |-> q.plc, addr |-> q.addr]
        /\ \A l \in Place : REGmap[n].ptr[l] = q => l = k
    BY <1>5, <1>14, <2>1, PointerForm
  <2>3. q \in Pointers(n)
    BY <1>14, <2>1 DEF Pointers
  <2>4. k # i => q # p
    BY <1>10, <1>11, <2>2 DEF Entry
  <2> QED  BY <2>1, <2>2, <2>3, <2>4
<1>15. CASE /\ p # Null /\ Exists(p) /\ r = Reg(p) /\ r.rmode /\ r.rvalue # w
            /\ s = With(r, w, TRUE, r.rerrors)
            /\ Only(PLCvec, PLCvec', p.plc, p.addr, s)
            /\ Overruled(p, n)
  <2>1. p = [buf |-> buffer, plc |-> p.plc, addr |-> p.addr]
    BY <1>7, <1>11, <1>14, <1>15
  <2>2. DOMAIN cmd' = DOMAIN cmd /\ cmd'[n] = cmd[n]
        /\ \A m \in DOMAIN cmd : cmd'[m] # Blank => cmd'[m] = cmd[m]
    BY Zenon, <1>5, <1>15 DEF Overruled
  <2>3. ASSUME NEW m \in DOMAIN cmd, m # n PROVE Stands(m)'
    <3>1. m \in DOMAIN REGmap /\ Stands(m)
      BY <1>2 DEF Commanding, Standing
    <3>2. \A k \in Words(m) : Reached(m, k)' => Reached(m, k)
      BY <1>12, <2>3
    <3> QED  BY Zenon, <1>15, <2>1, <2>3, <3>1, <3>2, OverruledStands
  <2>4. Stands(n)'
    <3>1. Stands(n)
      BY <1>5 DEF Commanding, Standing
    <3>2. PLCvec'[p.plc].regs[p.addr].rvalue = w
      <4>1. p.plc \in DOMAIN PLCvec /\ p.addr \in DOMAIN PLCvec[p.plc].regs
        BY <1>15 DEF Exists
      <4>2. PLCvec'[p.plc].regs[p.addr] = s
        BY Zenon, <1>15, <4>1 DEF Only
      <4>3. PICK u, e : u = TRUE /\ e = r.rerrors
        OBVIOUS
      <4>4. s = With(r, w, u, e)
        BY Zenon, <1>15, <4>3
      <4>5. s.rvalue = w
        BY SMT, <4>4 DEF With
      <4> QED  BY Zenon, <4>2, <4>5
    <3>3. ASSUME NEW k \in Words(n), NEW q, q = Entry(n).ptr[k], q # Null, Reached(n, k)',
                 cmd[n] # Blank
          PROVE  \/ Reached(n, k) /\ PLCvec'[q.plc].regs[q.addr].rvalue = Reg(q).rvalue
                 \/ PLCvec'[q.plc].regs[q.addr].rvalue = cmd[n][k]
      <4>1. CASE k = i
        <5>1. q = p /\ w = cmd[n][k]
          BY <1>5, <1>11, <3>3, <4>1
        <5> QED  BY <3>2, <5>1
      <4>2. CASE k # i
        <5>1. Reached(n, k)
          BY <1>13, <3>3, <4>2
        <5>2. Exists(q) /\ q # p /\ q = [buf |-> buffer, plc |-> q.plc, addr |-> q.addr]
          BY <1>14, <3>3, <4>2
        <5>3. ~(q.plc = p.plc /\ q.addr = p.addr)
          BY Zenon, <2>1, <5>2
        <5>4. q.plc \in DOMAIN PLCvec /\ q.addr \in DOMAIN PLCvec[q.plc].regs
          BY <5>2 DEF Exists
        <5>5. PLCvec'[q.plc].regs[q.addr] = PLCvec[q.plc].regs[q.addr]
          BY Zenon, <1>15, <5>3, <5>4 DEF Only
        <5> QED  BY <5>1, <5>5 DEF Reg
      <4> QED  BY <4>1, <4>2
    <3> QED  BY Zenon, <1>5, <2>2, <3>1, <3>3, StandsStill
  <2>5. Giving'
    <3>1. Giving
      BY DEF Commanding
    <3> QED  BY <1>2, <1>3, <1>4, <1>5, <1>9, <1>10, <2>2, <3>1, GivingKept
  <2> QED  BY Zenon, <1>1, <1>2, <2>2, <2>3, <2>4, <2>5 DEF Commanding, Standing
<1>16. CASE /\ p = Null \/ ~Reg(p).rmode \/ Reg(p).rvalue = w
            /\ UNCHANGED <<PLCvec, cmd>>
  <2>1. ASSUME NEW m \in DOMAIN cmd, m # n PROVE Stands(m)'
    <3>1. m \in DOMAIN REGmap /\ Stands(m) /\ cmd'[m] = cmd[m]
      BY <1>2, <1>16 DEF Commanding, Standing
    <3>2. ASSUME NEW k \in Words(m), NEW q, Reached(m, k)'
          PROVE  Reached(m, k) /\ PLCvec'[q.plc].regs[q.addr].rvalue = Reg(q).rvalue
      BY <1>12, <1>16, <2>1, <3>2 DEF Reg
    <3> QED  BY Zenon, <3>1, <3>2, StandsStill
  <2>2. Stands(n)'
    <3>1. Stands(n) /\ cmd'[n] = cmd[n]
      BY <1>5, <1>16 DEF Commanding, Standing
    <3>2. ASSUME NEW k \in Words(n), NEW q, q = Entry(n).ptr[k], q # Null, Reached(n, k)',
                 cmd[n] # Blank
          PROVE  \/ Reached(n, k) /\ PLCvec'[q.plc].regs[q.addr].rvalue = Reg(q).rvalue
                 \/ PLCvec'[q.plc].regs[q.addr].rvalue = cmd[n][k]
      <4>1. PLCvec'[q.plc].regs[q.addr].rvalue = Reg(q).rvalue
        BY <1>16 DEF Reg
      <4>2. CASE k = i
        <5>1. q = p /\ w = cmd[n][k]
          BY <1>5, <1>11, <3>2, <4>2
        <5>2. Reg(q).rmode
          BY <1>5, <1>14, <3>2
        <5> QED  BY <1>16, <3>2, <4>1, <5>1, <5>2
      <4>3. CASE k # i
        BY <1>13, <3>2, <4>1, <4>3
      <4> QED  BY <4>2, <4>3
    <3> QED  BY Zenon, <1>5, <3>1, <3>2, StandsStill
  <2>3. Giving'
    <3>1. Giving
      BY DEF Commanding
    <3> QED  BY <1>2, <1>3, <1>4, <1>5, <1>9, <1>10, <1>16, <3>1, GivingKept
  <2> QED  BY Zenon, <1>1, <1>2, <1>16, <2>1, <2>2, <2>3 DEF Commanding, Standing
<1> QED  BY Zenon, <1>11, <1>15, <1>16

LEMMA RunCommanding ==
  ASSUME Shape, Shape', NoTwins, Made, Led, Entries, Resting, Devices, Commanding, Keyed,
         Poller \/ Refresher
  PROVE  Commanding'
<1>1. ASSUME cmd' = cmd, task' = task,
             \A k \in DOMAIN PLCvec : \A a \in DOMAIN PLCvec[k].regs :
               PLCvec'[k].regs[a].rvalue = PLCvec[k].regs[a].rvalue
      PROVE  Commanding'
  BY Zenon, <1>1, QuietCommanding
<1>2. ASSUME cmd' = cmd, PLCvec' = PLCvec, task'.op # "write",
             task.op = "write" => \A i \in Words(task.n) : i < task.i
      PROVE  Commanding'
  BY Zenon, <1>2, QuietCommanding
<1>3. CASE Poller
  <2>1. pc = "run" /\ pc' = pc
    BY RunningBoth
  <2>2. ASSUME NEW now, PollAnswered(now) PROVE Commanding'
    BY Zenon, <1>1, <2>2 DEF PollAnswered, config
  <2>3. ASSUME NEW e, Rerrors(e), cmd' = cmd, task' = task, Addresses # {} PROVE Commanding'
    <3>1. \A k \in DOMAIN PLCvec : \A a \in DOMAIN PLCvec[k].regs :
            PLCvec'[k].regs[a].rvalue = PLCvec[k].regs[a].rvalue
      BY Zenon, <2>1, <2>3, MarksKeep DEF Devices
    <3> QED  BY Zenon, <1>1, <2>3, <3>1
  <2>4. CASE PollFails
    <3>1. Rerrors(TRUE) /\ cmd' = cmd /\ task' = task /\ Addresses # {}
      BY Zenon, <2>4 DEF PollFails
    <3> QED  BY Zenon, <2>3, <3>1
  <2>5. CASE CopyReg
    BY Zenon, <2>5, CopyCommanding
  <2>6. CASE CopyEnds
    <3>1. Rerrors(FALSE) /\ cmd' = cmd /\ task' = task /\ poll.op = "copy"
      BY Zenon, <2>6 DEF CopyEnds
    <3>2. Addresses # {}
      BY <2>1, <3>1 DEF Devices, Polling
    <3> QED  BY Zenon, <2>3, <3>1, <3>2
  <2>7. ASSUME NEW ok \in BOOLEAN, WriteReg(ok) PROVE Commanding'
    <3>1. cmd' = cmd /\ task' = task
      BY Zenon, <2>7 DEF WriteReg
    <3>2. \E a \in poll.left : \E r, s :
            /\ a \in Addresses /\ r = PLCvec[1].regs[a]
            /\ s = With(r, r.rvalue, ~ok, ~ok)
            /\ IF r.rupdate THEN Only(PLCvec, PLCvec', 1, a, s) ELSE PLCvec' = PLCvec
      BY Zenon, <2>7, WriteEffect
    <3>3. PICK a, r, s :
            /\ r = PLCvec[1].regs[a] /\ s = With(r, r.rvalue, ~ok, ~ok)
            /\ IF r.rupdate THEN Only(PLCvec, PLCvec', 1, a, s) ELSE PLCvec' = PLCvec
      BY <3>2
    <3>4. s.rvalue = r.rvalue
      BY SMT, <3>3 DEF With
    <3>5. ASSUME NEW k \in DOMAIN PLCvec, NEW c \in DOMAIN PLCvec[k].regs
          PROVE  PLCvec'[k].regs[c].rvalue = PLCvec[k].regs[c].rvalue
      <4>1. CASE PLCvec' = PLCvec
        BY <4>1
      <4>2. CASE Only(PLCvec, PLCvec', 1, a, s)
        <5>1. CASE k = 1 /\ c = a
          BY Zenon, <3>3, <3>4, <3>5, <4>2, <5>1 DEF Only
        <5>2. CASE ~(k = 1 /\ c = a)
          BY Zenon, <3>5, <4>2, <5>2 DEF Only
        <5> QED  BY <5>1, <5>2
      <4> QED  BY <3>3, <4>1, <4>2
    <3> QED  BY Zenon, <1>1, <3>1, <3>5
  <2>8. CASE WriteEnds
    BY Zenon, <1>1, <2>8 DEF WriteEnds, config
  <2> QED  BY Zenon, <1>3, <2>2, <2>4, <2>5, <2>6, <2>7, <2>8 DEF Poller
<1>4. CASE Refresher
  <2>1. ASSUME NEW n \in Watched, ReadBegins(n) PROVE Commanding'
    <3>1. task.op = "idle" /\ cmd' = cmd /\ PLCvec' = PLCvec
      BY Zenon, <2>1 DEF ReadBegins, config
    <3>2. PICK i, e, r : task' = [op |-> "read", n |-> n, i |-> i, val |-> Blank, bad |-> e, torn |-> r]
      BY Zenon, <2>1 DEF ReadBegins
    <3>3. task'.op = "read"
      BY SMT, <3>2
    <3> QED  BY Zenon, <1>2, <3>1, <3>3
  <2>2. ASSUME NEW n \in Watched, NEW v \in Commands(n), WriteBegins(n, v) PROVE Commanding'
    BY Zenon, <1>4, <2>2, BeginsCommanding
  <2>3. CASE ReadWord
    <3>1. task.op = "read" /\ cmd' = cmd /\ PLCvec' = PLCvec
      BY Zenon, <2>3 DEF ReadWord
    <3>2. PICK j, w, v, s :
            /\ task' = [task EXCEPT !.i = j, !.val[task.i - 1] = w]
            /\ v = [task.val EXCEPT ![task.i - 1] = w] /\ s = [task EXCEPT !.i = j]
      BY Zenon, <2>3 DEF ReadWord
    <3>3. task' = [s EXCEPT !.val = v]
      BY Zenon, <3>2
    <3>4. TaskRecord(task)
      BY DEF Resting
    <3>5. TaskRecord(s) /\ s.op = task.op
      BY SMT, <3>2, <3>4, TaskAt
    <3>6. task'.op = s.op
      BY SMT, <3>3, <3>5, TaskHolds
    <3> QED  BY Zenon, <1>2, <3>1, <3>5, <3>6
  <2>4. CASE WriteWord
    BY Zenon, <1>4, <2>4, WordCommanding
  <2>5. NoTask.op = "idle"
    BY SMT DEF NoTask
  <2>6. CASE ReadEnds
    <3>1. task.op = "read" /\ cmd' = cmd /\ PLCvec' = PLCvec /\ task' = NoTask
      BY Zenon, <2>6 DEF ReadEnds
    <3> QED  BY Zenon, <1>2, <2>5, <3>1
  <2>7. CASE WriteDone
    <3>1. /\ task.op = "write" /\ task.i \notin Words(task.n) /\ cmd' = cmd /\ PLCvec' = PLCvec
          /\ task' = NoTask
      BY Zenon, <2>7 DEF WriteDone
    <3>2. task.n \in DOMAIN cmd /\ task.i \in Nat
      BY <3>1 DEF Commanding, Giving
    <3>3. task.n \in DOMAIN REGmap
      <4>1. pc = "run"
        BY RunningBoth
      <4> QED  BY <3>2, <4>1 DEF Commanding, Watched
    <3>4. ASSUME NEW i \in Words(task.n) PROVE i < task.i
      <4>1. i \in Place /\ Entry(task.n).prop.rsize \in {0, 1, 2, 4}
        BY <3>3, WordPlace DEF Entry
      <4> QED  BY SMT, <3>1, <3>2, <4>1 DEF Words, Place
    <3> QED  BY Zenon, <1>2, <2>5, <3>1, <3>4
  <2>8. ASSUME NEW n \in Watched, NEW v \in OpcValues(n), TakeOpc(n, v) PROVE Commanding'
    <3>1. task.op = "idle" /\ cmd' = cmd /\ PLCvec' = PLCvec /\ task' = task
      BY Zenon, <2>8 DEF TakeOpc
    <3> QED  BY Zenon, <1>2, <3>1
  <2> QED  BY Zenon, <1>4, <2>1, <2>2, <2>3, <2>4, <2>6, <2>7, <2>8 DEF Refresher
<1> QED  BY <1>3, <1>4

-----------------------------------------------------------------------------
(* Loading and taking down.                                                *)

\* A register that init_regs has made has not been read or commanded.
LEMMA NewRegister ==
  ASSUME NEW r, NEW here, NEW A, NEW q, q = Register(r, here, A)
  PROVE  RegRecord(q) /\ q.rvalue = NotYet /\ q.rupdate = FALSE /\ q.rerrors = FALSE
<1>1. PICK n, no : n = (IF HasNext(r.addr, A) THEN [here EXCEPT !.addr = r.addr + 1] ELSE Null)
                   /\ no = FALSE
  OBVIOUS
<1>2. q = [name |-> r.name, folder |-> r.folder, rmode |-> r.rw, rvalue |-> NotYet,
           rupdate |-> no, rerrors |-> no, r_next |-> n]
  BY Zenon, <1>1 DEF Register
<1> QED  BY SMT, <1>1, <1>2 DEF RegRecord

LEMMA AddPlcDevices ==
  ASSUME Shape, Shape', NoTwins, Made, Room, Devices, AddPlc
  PROVE  Devices'
<1>0. PICK c, k : c = file.plc[at] /\ k = Len(PLCvec) + 1
  OBVIOUS
<1>1. Len(PLCvec) < capacity
  BY Zenon, <1>0, NotFull
<1>2. /\ Len(PLCvec) \in Nat /\ DOMAIN PLCvec = 1 .. Len(PLCvec) /\ at \in Nat
      /\ capacity \in Nat /\ IsSeq(PLCvec)
      /\ DOMAIN file.plc = 1 .. Len(file.plc) /\ Len(file.plc) \in Nat
  BY SeqParts, FileParts DEF Shape, Scalars, Vector
<1>3. ~(Len(PLCvec) >= capacity)
  BY SMT, <1>1, <1>2
<1>4. /\ pc = "plc" /\ at <= Len(file.plc) /\ c.complete /\ Listed(c)
      /\ UNCHANGED <<file, pc>>
  BY Zenon, <1>0 DEF AddPlc
<1>5. PICK V, here, D : /\ V = [j \in DOMAIN PLCvec |-> PLCvec[j]]
                        /\ here = [buf |-> buffer', plc |-> k, addr |-> 0]
                        /\ D = PlcObject(c, here)
  OBVIOUS
<1>6. V = [j \in DOMAIN PLCvec |-> V[j]] /\ \A j \in DOMAIN PLCvec : V[j] = PLCvec[j]
  BY SMT, <1>5
<1>7. IsSeq(V) /\ Len(V) = Len(PLCvec) /\ DOMAIN V = DOMAIN PLCvec
  BY <1>2, <1>6, Remade
<1>8. PLCvec' = Append(V, D)
  BY Zenon, <1>0, <1>3, <1>5 DEF AddPlc
<1>9. /\ DOMAIN PLCvec' = 1 .. k
      /\ \A j \in DOMAIN PLCvec : PLCvec'[j] = PLCvec[j]
      /\ PLCvec'[k] = D
  <2>1. LET T == Append(V, D)
        IN /\ DOMAIN T = 1 .. Len(V) + 1
           /\ \A i \in 1 .. Len(V) : T[i] = V[i]
           /\ T[Len(V) + 1] = D
    BY <1>7, Appended
  <2> QED  BY Zenon, <1>0, <1>2, <1>6, <1>7, <1>8, <2>1
<1>10. \A j \in DOMAIN PLCvec' : j = k \/ j \in DOMAIN PLCvec
  BY SMT, <1>0, <1>2, <1>9
<1>11. c \in Wanted
  <2>1. at \in DOMAIN file.plc
    <3>1. Len(PLCvec) < at
      BY <1>4 DEF Room
    <3> QED  BY SMT, <1>2, <1>4, <3>1
  <2> QED  BY Zenon, <1>0, <1>4, <2>1 DEF Wanted, Listed, SetOf
<1>12. PICK A, T : /\ A = {r.addr : r \in SetOf(c.regs)}
                   /\ T = [a \in A |-> Register(c.regs[LastAt(c.regs, a)], here, A)]
  OBVIOUS
<1>13. D = [name |-> c.name, folder |-> c.folder, lock |-> "live", regs |-> T]
  BY Zenon, <1>5, <1>12 DEF PlcObject
<1>14. /\ D.regs = T
       /\ D = [name |-> D.name, folder |-> D.folder, lock |-> D.lock, regs |-> D.regs]
  BY SMT, <1>13
<1>15. ASSUME NEW a \in DOMAIN D.regs, NEW q, q = D.regs[a]
       PROVE  /\ a \in Nat /\ RegRecord(q)
              /\ q.rvalue = NotYet /\ q.rupdate = FALSE /\ q.rerrors = FALSE
  <2>1. a \in A /\ q = Register(c.regs[LastAt(c.regs, a)], here, A)
    BY Zenon, <1>12, <1>14, <1>15
  <2>2. a \in Nat
    BY <1>11, <1>12, <2>1, RecordParts DEF Shape
  <2>3. PICK r : r = c.regs[LastAt(c.regs, a)]
    OBVIOUS
  <2>4. q = Register(r, here, A)
    BY Zenon, <2>1, <2>3
  <2>5. RegRecord(q) /\ q.rvalue = NotYet /\ q.rupdate = FALSE /\ q.rerrors = FALSE
    BY <2>4, NewRegister
  <2> QED  BY Zenon, <2>2, <2>5
<1>16. Object(D)
  BY Zenon, <1>14, <1>15 DEF Object
<1>17. Plain(NotYet)
  BY PlainWord DEF NotYet
<1>18. Objects'
  BY Zenon, <1>9, <1>10, <1>16 DEF Objects, Devices
<1>19. Worded'
  <2>1. \A a \in DOMAIN D.regs : Plain(D.regs[a].rvalue)
    BY <1>15, <1>17
  <2> QED  BY Zenon, <1>9, <1>10, <2>1 DEF Worded, Devices
<1>20. Untouched'
  <2>1. \A a \in DOMAIN D.regs : LET r == D.regs[a]
                                 IN r.rvalue = NotYet /\ ~r.rupdate /\ ~r.rerrors
    BY <1>15
  <2>2. \A j \in DOMAIN PLCvec : \A a \in DOMAIN PLCvec[j].regs :
          LET r == PLCvec[j].regs[a] IN r.rvalue = NotYet /\ ~r.rupdate /\ ~r.rerrors
    BY <1>4 DEF Untouched, Devices
  <2> QED  BY Zenon, <1>9, <1>10, <2>1, <2>2 DEF Untouched
<1>21. Uncommanded' /\ Polling'
  BY <1>4 DEF Uncommanded, Polling
<1> QED  BY <1>18, <1>19, <1>20, <1>21 DEF Devices

LEMMA BareDevices ==
  ASSUME DOMAIN PLCvec' = {}, pc' # "run"
  PROVE  Devices'
BY Zenon DEF Devices, Objects, Worded, Untouched, Uncommanded, Polling

LEMMA LoadDevices ==
  ASSUME Devices, PLCvec' = PLCvec, pc' # "run",
         pc' \in {"plc", "scada", "opc", "ready"} => pc \in {"plc", "scada", "opc", "ready"}
  PROVE  Devices'
<1>1. Uncommanded' /\ Polling'
  BY DEF Uncommanded, Polling
<1>2. Untouched'
  BY Zenon DEF Devices, Untouched
<1> QED  BY Zenon, <1>1, <1>2 DEF Devices, Objects, Worded

LEMMA ConfigDevices ==
  ASSUME Shape, Shape', Sane, NoTwins => Devices, NoTwins', ConfigStep
  PROVE  Devices'
<1>1. ASSUME NEW f \in File, ReadFile(f) PROVE Devices'
  <2>1. pc = "out" /\ PLCvec' = PLCvec /\ pc' # "run"
    BY SMT, <1>1 DEF ReadFile
  <2>2. DOMAIN PLCvec' = {}
    BY <2>1, EmptyIsSeq DEF Shape, Phases
  <2> QED  BY <2>1, <2>2, BareDevices
<1>2. CASE MbDeinit
  <2>1. PLCvec' = <<>> /\ pc' # "run"
    BY SMT, <1>2 DEF MbDeinit
  <2>2. DOMAIN PLCvec' = {}
    BY <2>1, EmptyIsSeq
  <2> QED  BY <2>1, <2>2, BareDevices
<1>3. CASE AddPlc
  <2>1. file' = file
    BY Zenon, <1>3 DEF AddPlc
  <2>2. NoTwins
    BY <2>1, SameFile
  <2> QED  BY <1>3, <2>2, AddPlcDevices DEF Sane
<1>4. CASE SkipPlc \/ CreateEntries \/ NextSet \/ SkipVar \/ AddVar \/ ScadaDone \/ OpcRegsInit
           \/ RegsDeinit \/ OpcDeinit
  <2>1. /\ file' = file /\ PLCvec' = PLCvec /\ pc' # "run"
        /\ pc' \in {"plc", "scada", "opc", "ready"} => pc \in {"plc", "scada", "opc", "ready"}
    BY SMT, <1>4 DEF SkipPlc, CreateEntries, NextSet, SkipVar, InSet, AddVar, ScadaDone,
       OpcRegsInit, RegsDeinit, OpcDeinit
  <2>2. NoTwins
    BY <2>1, SameFile
  <2> QED  BY <2>1, <2>2, LoadDevices
<1> QED  BY Zenon, <1>1, <1>2, <1>3, <1>4 DEF ConfigStep

\* Nothing is in hand when no thread works.
LEMMA IdleHand ==
  ASSUME Resting', pc' # "run"
  PROVE  Gathered' /\ Commanding'
<1>1. task'.op = "idle" /\ DOMAIN cmd' = {}
  BY DEF Resting
<1>2. Giving' /\ Standing'
  BY <1>1 DEF Giving, Standing
<1> QED  BY <1>1, <1>2 DEF Gathered, Commanding

LEMMA HandStays ==
  ASSUME Entries, Referring, UNCHANGED <<file, PLCvec, buffer, REGmap>>
  PROVE  Entries' /\ Referring'
<1>1. Refs' = Refs /\ \A n : RegOf(n)' = RegOf(n)
  BY Zenon, SameFile, SameTaken DEF Refs
<1> QED  BY Zenon, <1>1 DEF Entries, Referring, Exists

LEMMA NoEntries ==
  ASSUME DOMAIN REGmap' = {}
  PROVE  Entries' /\ Referring'
BY Zenon DEF Entries, Referring

\* The entries of registers.
LEMMA ModbusEntered ==
  ASSUME NEW p, NEW e, e = ModbusEntry(p)
  PROVE  Entered(e)
<1>1. PICK D, t, q, N, P, w :
        /\ D = PLCvec[p.plc] /\ t = regprop_map["u16"]
        /\ q = [i \in Place |-> IF i = 0 THEN p ELSE Null]
        /\ N = ModbusEntry(p).Number /\ P = ModbusEntry(p).path /\ w = Reg(p).rmode
  OBVIOUS
<1>2. PICK no : no = FALSE
  OBVIOUS
<1>3. PICK x, y, z : /\ x = SetType(NewNumber(Zero), "UINT16")
                     /\ y = SetNumber(NewNumber(Zero), [x EXCEPT !.value[0] = Reg(p).rvalue])
                     /\ z = Path(D.folder, D.name, Reg(p).folder, NameOf(p))
  OBVIOUS
<1>4. e = [kind |-> "modbus", rw |-> w, prop |-> t, ptr |-> q, var_errors |-> no,
           Number |-> y, path |-> z]
  BY Zenon, <1>1, <1>2, <1>3 DEF ModbusEntry
<1>5. EntryRecord(e) /\ e.prop = t
  BY SMT, <1>4 DEF EntryRecord
<1>6. t = Row({"u", "u16"}, "UINT16", 1, "SNGL")
  BY <1>1, U16
<1>7. t \in Rows
  BY Zenon, <1>6 DEF Rows
<1>8. t.rbyteorder = "SNGL"
  BY SMT, <1>6 DEF Row
<1>9. "SNGL" \notin Orders
  BY SMT DEF Orders
<1> QED  BY <1>5, <1>7, <1>8, <1>9 DEF Entered, Padded

\* A reference has not the name of a register.
LEMMA RefParts ==
  ASSUME NoTwins, NEW x \in Refs
  PROVE  /\ x[1] \in Sets /\ x[2] \in SetOf(x[1].vars) /\ x[2].source \in PlcNames
         /\ RefName(x) \notin PlcNames
<1>1. x[1] \in Sets /\ x[2] \in SetOf(x[1].vars) /\ x[2].source \in PlcNames
  BY DEF Refs, Taken, Given
<1>2. RefName(x)[1] = SetName(x[1])
  BY DEF RefName, FullName
<1>3. ASSUME RefName(x) \in PlcNames PROVE FALSE
  <2>1. PICK d \in Wanted : \E r \in SetOf(d.regs) : RefName(x) = FullName(d.name, r.name)
    BY <1>3 DEF PlcNames
  <2>2. RefName(x)[1] = d.name
    BY <2>1 DEF FullName
  <2> QED  BY <1>1, <1>2, <2>1, <2>2, OwnNames
<1> QED  BY <1>1, <1>3

LEMMA CreateHand ==
  ASSUME Shape, NoTwins, Made, CreateEntries
  PROVE  Entries' /\ Referring'
<1> DEFINE N == {NameOf(p) : p \in Registers}
<1>1. /\ UNCHANGED <<file, PLCvec, buffer>>
      /\ REGmap' = [n \in N |-> ModbusEntry(LastNamed(n))]
  BY Zenon DEF CreateEntries, LastNamed
<1>2. DOMAIN REGmap' = N /\ \A n \in N : REGmap'[n] = ModbusEntry(LastNamed(n))
  BY Zenon, <1>1
<1>3. Entries'
  BY Zenon, <1>2, ModbusEntered DEF Entries
<1>4. \A n \in N : n \in PlcNames
  BY Zenon, RegistersNamed
<1>5. Refs' = Refs
  BY Zenon, <1>1, SameTaken DEF Refs
<1>6. Referring'
  BY Zenon, <1>2, <1>4, <1>5, RefParts DEF Referring
<1> QED  BY <1>3, <1>6

\* The types of more than one word are known, as wide as they are.
LEMMA WideKnown ==
  ASSUME NEW t \in Rows, t.rbyteorder \in Orders
  PROVE  Known(t.rtype) /\ type_attr[t.rtype].words = t.rsize
<1>1. DOMAIN type_attr = {"INT16", "UINT16", "INT32", "UINT32", "FLOAT", "F10", "F100",
                          "INT64", "UINT64", "DOUBLE"}
  BY SMT DEF type_attr, Fits
<1>2. \A g \in DOMAIN type_attr : type_attr[g].words = Fits[g]
  BY SMT DEF type_attr
<1>3. /\ Fits["INT32"] = 2 /\ Fits["UINT32"] = 2 /\ Fits["FLOAT"] = 2
      /\ Fits["INT64"] = 4 /\ Fits["UINT64"] = 4 /\ Fits["DOUBLE"] = 4
  BY SMT DEF Fits
<1>4. \A ua, size, be, bs, le, ls : \A r \in Wide(ua, size, be, bs, le, ls) :
        r.rtype = ua /\ r.rsize = size
  BY SMT DEF Wide, Row
<1>5. \A names, ua, size, order :
        LET r == Row(names, ua, size, order) IN r.rbyteorder = order
  BY SMT DEF Row
<1>6. \/ t.rtype \in {"UINT32", "INT32", "FLOAT"} /\ t.rsize = 2
      \/ t.rtype \in {"UINT64", "INT64", "DOUBLE"} /\ t.rsize = 4
  BY SMT, <1>4, <1>5 DEF Rows, Orders
<1> QED  BY SMT, <1>1, <1>2, <1>3, <1>6 DEF Known

\* The entries of variables.
LEMMA ScadaEntered ==
  ASSUME Numbers, NEW c, NEW v, check_type(v.type), NEW e, e = ScadaEntry(c, v)
  PROVE  Entered(e)
<1>1. PICK n, t, k, w, q, old, P :
        /\ n = FullName(SetName(c), v.name) /\ t = TypeOf(v) /\ w = v.rw
        /\ k = (IF IsLocal(v) THEN "scada" ELSE "ref")
        /\ q = [i \in Place |-> IF SourcePtr(v) # Null /\ i < TypeOf(v).rsize
                                THEN Chain(SourcePtr(v))[i] ELSE Null]
        /\ old = (IF n \in DOMAIN REGmap THEN REGmap[n].Number ELSE NewNumber(Zero))
        /\ P = Path(c.folder, c.name, v.folder, n)
  OBVIOUS
<1>2. PICK x, y, z, no : /\ x = SetType(NewNumber(Zero), t.rtype) /\ y = Assign(x, Local)
                         /\ z = SetNumber(old, y) /\ no = FALSE
  OBVIOUS
<1>3. e = [kind |-> k, rw |-> w, prop |-> t, ptr |-> q, var_errors |-> no,
           Number |-> z, path |-> P]
  BY Zenon, <1>1, <1>2 DEF ScadaEntry
<1>4. EntryRecord(e) /\ e.prop = t /\ e.Number = z
  BY SMT, <1>3 DEF EntryRecord
<1>5. t \in Rows
  <2>1. v.type \in TypeNames
    BY DEF check_type
  <2>2. \E r \in Rows : v.type \in r.names
    BY <2>1 DEF TypeNames
  <2>3. t = CHOOSE r \in Rows : v.type \in r.names
    BY <1>1, <2>1 DEF TypeOf, regprop_map
  <2> QED  BY <2>2, <2>3
<1>6. Fitting(x) /\ Fitting(y)
  <2>1. Fitting(NewNumber(Zero))
    BY SMT, Widths DEF Fitting, NewNumber
  <2> QED  BY Zenon, <1>2, <2>1, NumbersFit
<1>7. ASSUME t.rbyteorder \in Orders, NEW i \in Place, i >= t.rsize PROVE z.value[i] = Zero
  <2>1. Known(t.rtype) /\ type_attr[t.rtype].words = t.rsize
    BY <1>5, <1>7, WideKnown
  <2>2. x.ua = type_attr[t.rtype].ua /\ Known(x.ua)
    BY Zenon, <1>2, <2>1, SetTypeUa
  <2>3. y.ua = x.ua
    BY Zenon, <1>2, <1>6, <2>2, AssignUa
  <2>4. type_attr[y.ua].words = t.rsize
    BY Zenon, <2>1, <2>2, <2>3, Widths
  <2>5. y = [ua |-> y.ua, words |-> y.words, isgood |-> y.isgood, value |-> y.value]
    BY <1>6 DEF Fitting
  <2> QED  BY SMT, <1>2, <1>7, <2>2, <2>3, <2>4, <2>5, NoMoreThanFits
<1> QED  BY <1>4, <1>5, <1>7 DEF Entered, Padded

\* A set and a variable of it are told by their names.
LEMMA OneVariable ==
  ASSUME NoTwins, NEW x \in Refs, NEW i \in DOMAIN file.scada, NEW c, c = file.scada[i],
         c.complete, NEW v \in SetOf(c.vars),
         RefName(x) = FullName(SetName(c), v.name)
  PROVE  x[1] = c /\ x[2] = v
<1>1. x[1] \in Sets /\ x[2] \in SetOf(x[1].vars)
  BY RefParts
<1>2. SetName(x[1]) = SetName(c) /\ x[2].name = v.name
  <2>1. RefName(x) = FullName(SetName(x[1]), x[2].name)
    BY DEF RefName
  <2>2. PICK a, b, d, e, m : /\ a = SetName(x[1]) /\ b = x[2].name /\ d = SetName(c) /\ e = v.name
                             /\ m = RefName(x)
    OBVIOUS
  <2>3. m = FullName(a, b) /\ m = FullName(d, e)
    BY Zenon, <2>1, <2>2
  <2>4. m[1] = a /\ m[2] = b /\ m[1] = d /\ m[2] = e
    BY SMT, <2>3 DEF FullName
  <2> QED  BY <2>2, <2>4
<1>3. PICK j \in DOMAIN file.scada : x[1] = file.scada[j]
  BY <1>1 DEF Sets, SetOf
<1>4. \A k, m \in DOMAIN file.scada : SetName(file.scada[k]) = SetName(file.scada[m]) => k = m
  BY Zenon DEF NoTwins, Different
<1>5. x[1] = c
  BY <1>2, <1>3, <1>4
<1>6. \A k, m \in DOMAIN c.vars : c.vars[k].name = c.vars[m].name => k = m
  BY Zenon, <1>1, <1>5 DEF NoTwins, Different
<1>7. x[2] = v
  BY <1>1, <1>2, <1>5, <1>6 DEF SetOf
<1> QED  BY <1>5, <1>7

LEMMA AddVarHand ==
  ASSUME Shape, NoTwins, Made, Led, Origins, Entries, Referring, AddVar
  PROVE  Entries' /\ Referring'
<1>0. PICK c, v, p, n : /\ c = file.scada[at] /\ v = Here /\ p = SourcePtr(v)
                        /\ n = FullName(SetName(c), v.name)
  OBVIOUS
<1>1. /\ at <= Len(file.scada) /\ c.complete /\ nth <= Len(c.vars) /\ v = c.vars[nth]
      /\ IsLocal(v) \/ v.source \in DOMAIN REGmap
      /\ check_type(v.type)
      /\ UNCHANGED <<file, PLCvec, buffer>>
      /\ \/ REGmap' = REGmap
         \/ REGmap' = [m \in DOMAIN REGmap \cup {n} |->
                         IF m = n THEN ScadaEntry(c, v) ELSE REGmap[m]]
  BY Zenon, <1>0 DEF AddVar, InSet, Refused, Here
<1>2. CASE REGmap' = REGmap
  BY <1>1, <1>2, HandStays
<1>3. CASE REGmap' = [m \in DOMAIN REGmap \cup {n} |->
                        IF m = n THEN ScadaEntry(c, v) ELSE REGmap[m]]
  <2>1. PICK e : e = ScadaEntry(c, v)
    OBVIOUS
  <2>2. /\ DOMAIN REGmap' = DOMAIN REGmap \cup {n}
        /\ REGmap'[n] = e
        /\ \A m \in DOMAIN REGmap : m # n => REGmap'[m] = REGmap[m]
    BY Zenon, <1>3, <2>1
  <2>3. Entered(e)
    BY Zenon, <1>1, <2>1, ScadaEntered DEF Shape
  <2>4. Entries'
    BY Zenon, <2>2, <2>3 DEF Entries
  <2>5. at \in DOMAIN file.scada /\ nth \in DOMAIN c.vars /\ v \in SetOf(c.vars)
    <3>1. at \in DOMAIN file.scada
      BY SMT, <1>1, FileParts DEF Shape, Scalars
    <3>2. c \in Sets
      BY Zenon, <1>0, <1>1, <3>1 DEF Sets, SetOf
    <3>3. IsSeq(c.vars)
      BY <3>2, RecordParts DEF Shape
    <3>4. nth \in DOMAIN c.vars
      BY SMT, <1>1, <3>3, SeqParts DEF Shape, Scalars
    <3> QED  BY <1>1, <3>1, <3>4 DEF SetOf
  <2>6. Refs' = Refs /\ \A m : RegOf(m)' = RegOf(m)
    BY Zenon, <1>1, SameFile, SameTaken DEF Refs
  <2>7. ASSUME NEW x \in Refs, NEW m, m = RefName(x), m \in DOMAIN REGmap',
               NEW f, f = REGmap'[m], NEW q, q = f.ptr[0], f.prop.rsize > 0
        PROVE  Exists(q) /\ RegOf(x[2].source) = [plc |-> PLCvec[q.plc].name, addr |-> q.addr]
    <3>1. CASE m # n
      <4>1. m \in DOMAIN REGmap /\ REGmap'[m] = REGmap[m]
        BY <2>2, <2>7, <3>1
      <4> QED  BY Zenon, <2>7, <4>1 DEF Referring
    <3>2. CASE m = n
      <4>1. x[2] = v
        BY Zenon, <1>0, <1>1, <2>5, <2>7, <3>2, OneVariable
      <4>2. v.source \in PlcNames
        BY <4>1, RefParts
      <4>3. ~IsLocal(v)
        <5>1. PICK a, b : v.source = FullName(a, b)
          BY <4>2 DEF PlcNames
        <5> QED  BY <5>1, ThreeParts DEF IsLocal, NoSource
      <4>4. /\ v.source \in DOMAIN REGmap /\ p = REGmap[v.source].ptr[0]
        BY Zenon, <1>0, <1>1, <4>3 DEF SourcePtr
      <4>5. Exists(p) /\ RegOf(v.source) = [plc |-> PLCvec[p.plc].name, addr |-> p.addr]
        BY Zenon, <4>2, <4>4 DEF Origins, EntryOfReg
      <4>6. p # Null
        BY <4>5, NullIsNone DEF Shape
      <4>7. /\ e.prop = TypeOf(v)
            /\ \A i \in Place : e.ptr[i] = IF p # Null /\ i < TypeOf(v).rsize
                                           THEN Chain(p)[i] ELSE Null
        BY Zenon, <1>0, <2>1, ScadaParts
      <4>8. f = e
        BY <2>2, <2>7, <3>2
      <4>9. 0 < e.prop.rsize /\ 0 \in Place
        <5>1. TypeOf(v).rsize \in {0, 1, 2, 4}
          BY <1>1, Sizes DEF TypeOf
        <5> QED  BY SMT, <2>7, <4>7, <4>8, <5>1 DEF Place
      <4>10. e.ptr[0] = p
        BY Zenon, <4>6, <4>7, <4>9, ChainLinks
      <4> QED  BY <2>7, <4>1, <4>5, <4>8, <4>10
    <3> QED  BY <3>1, <3>2
  <2>8. Referring'
    <3>1. ASSUME NEW x \in Refs, RefName(x) \in DOMAIN REGmap',
                 REGmap'[RefName(x)].prop.rsize > 0
          PROVE  LET q == REGmap'[RefName(x)].ptr[0] IN
                 Exists(q) /\ RegOf(x[2].source) = [plc |-> PLCvec[q.plc].name, addr |-> q.addr]
      <4>1. PICK m : m = RefName(x)
        OBVIOUS
      <4>2. PICK f : f = REGmap'[m]
        OBVIOUS
      <4>3. PICK q : q = f.ptr[0]
        OBVIOUS
      <4>4. Exists(q) /\ RegOf(x[2].source) = [plc |-> PLCvec[q.plc].name, addr |-> q.addr]
        BY <2>7, <3>1, <4>1, <4>2, <4>3
      <4> QED  BY <4>1, <4>2, <4>3, <4>4
    <3> QED  BY Zenon, <1>1, <2>6, <3>1 DEF Referring, Exists
  <2> QED  BY <2>4, <2>8
<1> QED  BY <1>1, <1>2, <1>3

LEMMA ConfigHand ==
  ASSUME Shape, Shape', Sane, NoTwins => Entries /\ Referring, NoTwins', ConfigStep
  PROVE  Entries' /\ Referring'
<1>1. ASSUME NEW f \in File, ReadFile(f) PROVE Entries' /\ Referring'
  <2>1. pc = "out" /\ REGmap' = REGmap
    BY SMT, <1>1 DEF ReadFile
  <2>2. DOMAIN REGmap' = {}
    BY SMT, <2>1 DEF Shape, Phases
  <2> QED  BY <2>2, NoEntries
<1>2. CASE SkipPlc \/ AddPlc \/ OpcDeinit \/ MbDeinit
  <2>1. REGmap' = REGmap /\ pc \in {"plc", "noregs", "noopc"}
    BY SMT, <1>2 DEF SkipPlc, AddPlc, OpcDeinit, MbDeinit
  <2>2. DOMAIN REGmap' = {}
    BY SMT, <2>1 DEF Shape, Phases
  <2> QED  BY <2>2, NoEntries
<1>3. CASE RegsDeinit
  <2>1. REGmap' = Empty
    BY Zenon, <1>3 DEF RegsDeinit
  <2>2. DOMAIN Empty = {}
    BY SMT DEF Empty
  <2> QED  BY <2>1, <2>2, NoEntries
<1>4. CASE CreateEntries
  <2>1. file' = file
    BY Zenon, <1>4 DEF CreateEntries
  <2>2. NoTwins
    BY <2>1, SameFile
  <2> QED  BY <1>4, <2>2, CreateHand DEF Sane
<1>5. CASE AddVar
  <2>1. file' = file
    BY Zenon, <1>5 DEF AddVar
  <2>2. NoTwins
    BY <2>1, SameFile
  <2> QED  BY <1>5, <2>2, AddVarHand DEF Sane
<1>6. CASE NextSet \/ SkipVar \/ ScadaDone \/ OpcRegsInit
  <2>1. UNCHANGED <<file, PLCvec, buffer, REGmap>>
    BY Zenon, <1>6 DEF NextSet, SkipVar, ScadaDone, OpcRegsInit
  <2>2. NoTwins
    BY <2>1, SameFile
  <2> QED  BY <2>1, <2>2, HandStays
<1> QED  BY Zenon, <1>1, <1>2, <1>3, <1>4, <1>5, <1>6 DEF ConfigStep

-----------------------------------------------------------------------------
(* The invariant.                                                          *)

\* tasks_start and the stop.
LEMMA StartHand ==
  ASSUME Shape, Resting, Resting', Start
  PROVE  Gathered' /\ Commanding'
<1>1. /\ pc' = "run" /\ task' = task /\ task.op = "idle" /\ file' = file /\ REGmap' = REGmap
      /\ cmd' = [n \in Watched |-> Blank]
  <2>1. pc = "ready" /\ pc' = "run" /\ task' = task /\ file' = file /\ REGmap' = REGmap
        /\ cmd' = [n \in Watched |-> Blank]
    BY Zenon DEF Start
  <2> QED  BY <2>1 DEF Resting
<1>2. DOMAIN cmd' = Watched /\ \A n \in Watched : cmd'[n] = Blank
  BY Zenon, <1>1
<1>3. Watched' = Watched
  BY <1>1 DEF Watched
<1>4. Giving' /\ Gathered'
  BY <1>1 DEF Giving, Gathered
<1>5. Standing'
  BY Zenon, <1>2 DEF Standing, Stands
<1> QED  BY <1>2, <1>3, <1>4, <1>5 DEF Commanding

LEMMA ReadingStep ==
  ASSUME IInv, IInv', Taking, RInv, [Next]_vars
  PROVE  RInv'
<1>1. Shape /\ Shape' /\ Sane /\ Sane' /\ Resting /\ Resting'
  BY RestingStep DEF IInv, RInv
<1> SUFFICES ASSUME NoTwins' PROVE Devices' /\ InHand'
  BY <1>1 DEF RInv
<1>2. CASE ConfigStep /\ UNCHANGED run
  <2>1. pc' # "run"
    BY SMT, <1>2 DEF ConfigStep, ReadFile, SkipPlc, AddPlc, CreateEntries, NextSet, SkipVar,
       InSet, AddVar, ScadaDone, OpcRegsInit, RegsDeinit, OpcDeinit, MbDeinit
  <2>2. Devices'
    BY <1>1, <1>2, ConfigDevices DEF RInv
  <2>3. Entries' /\ Referring'
    BY <1>1, <1>2, ConfigHand DEF RInv, InHand
  <2> QED  BY <1>1, <2>1, <2>2, <2>3, IdleHand DEF InHand
<1>3. CASE Start \/ Stop
  <2>1. UNCHANGED <<file, PLCvec, buffer, REGmap>> /\ (Stop => pc' # "run")
    BY SMT, <1>3 DEF Start, Stop
  <2>2. NoTwins
    BY <2>1, SameFile
  <2>3. Devices /\ Entries /\ Referring
    BY <2>2 DEF RInv, InHand
  <2>4. Entries' /\ Referring'
    BY <2>1, <2>3, HandStays
  <2>5. Devices'
    BY <1>1, <1>3, <2>3, StartKeeps, StopKeeps
  <2>6. Gathered' /\ Commanding'
    BY <1>1, <1>3, <2>1, StartHand, IdleHand
  <2> QED  BY <2>4, <2>5, <2>6 DEF InHand
<1>4. CASE Poller \/ Refresher
  <2>1. NoTwins
    BY <1>1, <1>4, TablesKept
  <2>2. /\ Made /\ Led /\ Devices /\ Entries /\ Referring /\ Gathered /\ Commanding /\ Giving
        /\ Keyed
    BY <1>1, <2>1 DEF Sane, RInv, InHand, Commanding, Taking
  <2>3. task.op # "idle" => task.n \in DOMAIN REGmap
    BY DEF Taking, Timely
  <2>4. Devices'
    BY Zenon, <1>1, <1>4, <2>1, <2>2, <2>3, RunDevices
  <2>5. Entries' /\ Referring'
    BY Zenon, <1>1, <1>4, <2>2, <2>3, RunEntries, ReferringKept
  <2>6. Gathered' /\ Commanding'
    BY Zenon, <1>1, <1>4, <2>1, <2>2, RunGathers, RunCommanding
  <2> QED  BY <2>4, <2>5, <2>6 DEF InHand
<1>5. CASE UNCHANGED vars
  <2>1. /\ UNCHANGED <<file, pc, PLCvec, buffer, REGmap>>
        /\ UNCHANGED <<dev, poll, task, cmd>>
    BY Zenon, <1>5 DEF vars, config, run
  <2>2. NoTwins
    BY <2>1, SameFile
  <2>3. Devices'
    BY Zenon, <2>1, <2>2, DevicesStay DEF RInv
  <2>4. Entries' /\ Referring'
    BY Zenon, <2>1, <2>2, HandStays DEF RInv, InHand
  <2>5. Gathered' /\ Commanding'
    <3>1. Addresses' = Addresses /\ Watched' = Watched
      BY <2>1 DEF Addresses, Watched
    <3>2. Gathered /\ Commanding
      BY <2>2 DEF RInv, InHand
    <3>3. Gathered'
      BY Zenon, <2>1, <3>1, <3>2 DEF Gathered, AtOnce, Entry, Words, Reg
    <3>4. \A n : Entry(n)' = Entry(n)
      BY <2>1 DEF Entry
    <3>5. \A n : /\ Words(n)' = Words(n) /\ Pointers(n)' = Pointers(n)
                 /\ Commands(n)' = Commands(n)
      BY Zenon, <2>1, <3>4 DEF Words, Pointers, Commands
    <3>6. /\ \A p : Reg(p)' = Reg(p)
          /\ \A n, i : Reached(n, i)' <=> Reached(n, i)
      BY <2>1 DEF Reg, Reached
    <3>7. Giving'
      BY Zenon, <2>1, <3>2, <3>5, <3>6 DEF Commanding, Giving
    <3>8. \A n : Stands(n)' <=> Stands(n)
      BY Zenon, <2>1, <3>4, <3>5, <3>6 DEF Stands
    <3>9. Standing'
      BY Zenon, <2>1, <3>2, <3>8 DEF Commanding, Standing
    <3> QED  BY Zenon, <2>1, <3>1, <3>2, <3>3, <3>7, <3>9 DEF Commanding
  <2> QED  BY <2>3, <2>4, <2>5 DEF InHand
<1> QED  BY <1>2, <1>3, <1>4, <1>5 DEF Next

LEMMA ReadingInit == RunInit => RInv
<1> SUFFICES ASSUME RunInit PROVE RInv
  OBVIOUS
<1>1. /\ pc = "out" /\ PLCvec = <<>> /\ REGmap = Empty /\ poll = NoPoll /\ task = NoTask
      /\ cmd = Empty
  BY Zenon DEF RunInit, Init
<1>2. DOMAIN PLCvec = {} /\ DOMAIN REGmap = {} /\ DOMAIN cmd = {}
  BY SMT, <1>1, EmptyIsSeq DEF Empty
<1>3. task.op = "idle" /\ TaskRecord(task)
  BY SMT, <1>1 DEF NoTask, TaskRecord
<1>4. poll.op = "idle" /\ poll = [op |-> poll.op, buf |-> poll.buf, left |-> poll.left]
  BY SMT, <1>1 DEF NoPoll
<1>5. Resting
  BY <1>1, <1>2, <1>3, <1>4 DEF Resting
<1>6. Devices
  BY Zenon, <1>1, <1>2 DEF Devices, Objects, Worded, Untouched, Uncommanded, Polling
<1>7. Entries /\ Referring
  BY Zenon, <1>2 DEF Entries, Referring
<1>8. Gathered /\ Commanding
  BY <1>1, <1>2, <1>3 DEF Gathered, Commanding, Giving, Standing
<1> QED  BY <1>5, <1>6, <1>7, <1>8 DEF RInv, InHand

\* What holds of the register layer at work.
WInv == IInv /\ Taking /\ RInv

LEMMA AtWork == Spec => []WInv
<1>1. RunInit => WInv
  BY ShapeInit, SaneInit, TakingInit, ReadingInit DEF WInv, IInv
<1>2. WInv /\ [Next]_vars => WInv'
  <2>1. IInv /\ [Next]_vars => IInv'
    BY ShapeStep, SaneStep DEF IInv
  <2> QED  BY <2>1, TakingStep, ReadingStep DEF WInv
<1> QED  BY <1>1, <1>2, PTL DEF Spec

-----------------------------------------------------------------------------
(* What a reading finds.                                                   *)

LEMMA CalmEnds ==
  ASSUME Resting, [Next]_vars, NEW n, Calm(n)
  PROVE  ReadEnds /\ pc = "run"
<1>1. task.op = "read" /\ task' = NoTask /\ task.i = 0
  BY DEF Calm
<1>2. task' # task /\ task'.op = "idle"
  BY SMT, <1>1 DEF NoTask
<1>3. pc = "run"
  BY <1>1 DEF Resting
<1>4. ~(ConfigStep /\ UNCHANGED run) /\ ~UNCHANGED vars
  BY Zenon, <1>2 DEF run, vars
<1>5. ~Start /\ ~Stop
  BY Zenon, <1>2 DEF Start, Stop
<1>6. ASSUME Poller PROVE FALSE
  <2>1. CopyReg
    BY Zenon, <1>2, <1>6 DEF Poller, PollAnswered, PollFails, CopyEnds, WriteReg, WriteEnds
  <2>2. PICK a, w : Stored(a, w)
    BY Zenon, <2>1 DEF CopyReg
  <2>3. task' = [task EXCEPT !.torn = task.torn \/ task.op = "read"]
    BY Zenon, <2>2 DEF Stored
  <2>4. PICK b : b = (task.torn \/ task.op = "read")
    OBVIOUS
  <2>5. task' = [task EXCEPT !.torn = b]
    BY Zenon, <2>3, <2>4
  <2>6. task'.op = task.op
    BY SMT, <2>5, TaskTorn DEF Resting
  <2> QED  BY <1>1, <1>2, <2>6
<1>7. CASE Refresher
  <2>1. ReadWord => task.i > 0
    BY Zenon DEF ReadWord
  <2>2. ~ReadWord
    BY SMT, <1>1, <2>1
  <2>3. ~WriteWord /\ ~WriteDone
    BY Zenon, <1>1 DEF WriteWord, WriteDone
  <2>4. \A m, v : ~ReadBegins(m) /\ ~WriteBegins(m, v) /\ ~TakeOpc(m, v)
    BY Zenon, <1>1 DEF ReadBegins, WriteBegins, TakeOpc
  <2> QED  BY Zenon, <1>3, <1>7, <2>2, <2>3, <2>4 DEF Refresher
<1> QED  BY <1>4, <1>5, <1>6, <1>7 DEF Next

\* The words that an entry should show are those it points to.
LEMMA AskedIs ==
  ASSUME Shape, NoTwins, Made, Led, Origins, Entries, Referring,
         NEW n \in DOMAIN REGmap, n \in PlcNames \/ \E x \in Refs : RefName(x) = n,
         NEW i \in Words(n), NEW p, p = Entry(n).ptr[i]
  PROVE  /\ p # Null /\ Exists(p) /\ Asked(n)[i] = Reg(p)
         /\ p.addr = Origin(n).addr + i /\ p.plc = PlcAt(Origin(n).plc)
<1>1. PICK e, q : e = REGmap[n] /\ q = e.ptr[0]
  OBVIOUS
<1>2. i \in Place /\ i < e.prop.rsize /\ e.prop.rsize \in {0, 1, 2, 4} /\ i \in Nat
  <2>1. i \in Place /\ i < e.prop.rsize /\ e.prop.rsize \in {0, 1, 2, 4}
    BY <1>1, WordPlace
  <2> QED  BY SMT, <2>1 DEF Place
<1>3. Exists(q) /\ Origin(n) = [plc |-> PLCvec[q.plc].name, addr |-> q.addr]
  <2>1. CASE n \in PlcNames
    BY Zenon, <1>1, <2>1 DEF Origins, EntryOfReg, Origin
  <2>2. CASE n \notin PlcNames
    <3>1. PICK x : x = CHOOSE y \in Refs : RefName(y) = n
      OBVIOUS
    <3>2. x \in Refs /\ RefName(x) = n
      BY Zenon, <2>2, <3>1
    <3>3. e.prop.rsize > 0
      BY SMT, <1>2 DEF Place
    <3>4. Exists(q) /\ RegOf(x[2].source) = [plc |-> PLCvec[q.plc].name, addr |-> q.addr]
      BY Zenon, <1>1, <3>2, <3>3 DEF Referring
    <3> QED  BY Zenon, <2>2, <3>1, <3>4 DEF Origin
  <2> QED  BY <2>1, <2>2
<1>4. q # Null /\ q.addr \in Nat
  BY <1>3, NullIsNone, Pointed DEF Shape
<1>5. p = To(q, i) /\ Exists(To(q, i))
  <2>1. EntryRuns(e)
    BY <1>1 DEF Led
  <2>2. 0 \in Place
    BY SMT DEF Place
  <2> QED  BY Zenon, <1>1, <1>2, <1>4, <2>1, <2>2 DEF EntryRuns, Entry
<1>6. p.plc = q.plc /\ p.addr = q.addr + i
  BY <1>2, <1>4, <1>5, ToTo
<1>7. Origin(n).plc = PLCvec[q.plc].name /\ Origin(n).addr = q.addr
  BY SMT, <1>3
<1>8. PlcAt(Origin(n).plc) = q.plc
  <2>1. q.plc \in DOMAIN PLCvec
    BY <1>3 DEF Exists
  <2>2. \A k \in DOMAIN PLCvec : PLCvec[k].name = PLCvec[q.plc].name => k = q.plc
    BY <2>1 DEF Made
  <2> QED  BY Zenon, <1>7, <2>1, <2>2 DEF PlcAt
<1>9. Asked(n)[i] = PLCvec[PlcAt(Origin(n).plc)].regs[Origin(n).addr + i]
  BY Zenon DEF Asked
<1>10. p # Null
  BY <1>5, NullIsNone DEF Shape
<1> QED  BY Zenon, <1>5, <1>6, <1>7, <1>8, <1>9, <1>10 DEF Reg

LEMMA ValueTaken ==
  ASSUME Entries, Numbers, NEW n \in DOMAIN REGmap, NEW v,
         REGmap' = [REGmap EXCEPT ![n].Number.value = v]
  PROVE  REGmap'[n].Number.value = v
<1>1. PICK e, x, y : e = REGmap[n] /\ x = e.Number /\ y = [x EXCEPT !.value = v]
  OBVIOUS
<1>2. PICK f : f = [e EXCEPT !.Number = y]
  OBVIOUS
<1>3. REGmap'[n] = f
  BY Zenon, <1>1, <1>2
<1>4. /\ x = [ua |-> x.ua, words |-> x.words, isgood |-> x.isgood, value |-> x.value]
      /\ e = [kind |-> e.kind, rw |-> e.rw, prop |-> e.prop, ptr |-> e.ptr,
              var_errors |-> e.var_errors, Number |-> e.Number, path |-> e.path]
  BY <1>1 DEF Entries, Entered, EntryRecord, Numbers, Fitting
<1>5. y.value = v
  BY SMT, <1>1, <1>4
<1>6. f.Number = y
  BY SMT, <1>2, <1>4
<1> QED  BY <1>3, <1>5, <1>6

\* The new value is made of the words that stand in the registers.
LEMMA CalmReads ==
  ASSUME WInv, [Next]_vars, NEW n \in DOMAIN REGmap, Calm(n)
  PROVE  /\ pc = "run" /\ Entry(n).prop \in Rows
         /\ Fills(Entry(n).Number.value, Entry(n).prop)
         /\ New(n) = Converted(Entry(n).prop, Entry(n).Number.value, task.val, task.bad)
         /\ poll.op = "copy" => poll.left = Addresses
         /\ \A i \in Words(n) : LET p == Entry(n).ptr[i] IN
              /\ p # Null /\ Exists(p) /\ Asked(n)[i] = Reg(p)
              /\ p.addr = Origin(n).addr + i /\ p.plc = PlcAt(Origin(n).plc)
              /\ Entry(n).prop.rtype \notin {"HEX", "BINARY"} =>
                   task.val[i] = Reg(p).rvalue /\ Plain(Reg(p).rvalue)
<1>1. /\ Shape /\ NoTwins /\ Made /\ Led /\ Origins /\ Entries /\ Referring /\ Gathered
      /\ Devices /\ Resting
  BY DEF WInv, IInv, Sane, RInv, InHand, Calm
<1>2. /\ task.op = "read" /\ task.i = 0 /\ task.n = n
      /\ ~task.torn /\ ~task.bad /\ ~get_plc_errors(n)
      /\ n \in PlcNames \/ \E x \in Refs : RefName(x) = n
  BY DEF Calm
<1>3. ReadEnds /\ pc = "run"
  BY <1>1, CalmEnds
<1>4. PICK e, v : e = REGmap[n] /\ v = Converted(e.prop, e.Number.value, task.val, task.bad)
  OBVIOUS
<1>5. New(n) = v
  <2>1. REGmap' = [REGmap EXCEPT ![n].Number.value = v]
    BY Zenon, <1>2, <1>3, <1>4 DEF ReadEnds, Entry
  <2> QED  BY <1>1, <2>1, ValueTaken DEF Shape, New
<1>6. e.prop \in Rows /\ Fills(e.Number.value, e.prop)
  BY Zenon, <1>1, <1>4 DEF Entries, Entered, Padded, Fills
<1>7. poll.op = "copy" => poll.left = Addresses
  BY <1>1, <1>2 DEF Gathered
<1>8. ASSUME NEW i \in Words(n), NEW p, p = Entry(n).ptr[i]
      PROVE  /\ p # Null /\ Exists(p) /\ Asked(n)[i] = Reg(p)
             /\ p.addr = Origin(n).addr + i /\ p.plc = PlcAt(Origin(n).plc)
             /\ Entry(n).prop.rtype \notin {"HEX", "BINARY"} =>
                  task.val[i] = Reg(p).rvalue /\ Plain(Reg(p).rvalue)
  <2>1. /\ p # Null /\ Exists(p) /\ Asked(n)[i] = Reg(p)
        /\ p.addr = Origin(n).addr + i /\ p.plc = PlcAt(Origin(n).plc)
    BY <1>1, <1>2, <1>8, AskedIs
  <2>2. ~Reg(p).rerrors
    BY Zenon, <1>2, <1>8, <2>1 DEF get_plc_errors
  <2>3. Plain(Reg(p).rvalue)
    BY Zenon, <1>1, <2>1 DEF Devices, Worded, Exists, Reg
  <2>4. i >= task.i
    BY SMT, <1>1, <1>2, WordPlace DEF Place
  <2>5. ASSUME Entry(n).prop.rtype \notin {"HEX", "BINARY"} PROVE task.val[i] = Reg(p).rvalue
    <3>1. ~AtOnce(task.n, task.bad)
      BY Zenon, <1>2, <2>5 DEF AtOnce
    <3>2. \A j \in Words(n) : LET q == Entry(n).ptr[j] IN
            j >= task.i /\ q # Null /\ ~Reg(q).rerrors => task.val[j] = Reg(q).rvalue
      BY Zenon, <1>1, <1>2, <3>1 DEF Gathered
    <3> QED  BY Zenon, <1>8, <2>1, <2>2, <2>4, <3>2
  <2> QED  BY <2>1, <2>3, <2>5
<1> QED  BY Zenon, <1>3, <1>4, <1>5, <1>6, <1>7, <1>8 DEF Entry

-----------------------------------------------------------------------------
(* What a reading shows.                                                   *)

LEMMA PlainIsWord ==
  ASSUME NEW w, Plain(w)
  PROVE  IsWord(w)
<1>1. PICK k, a, o : w = [kind |-> k, at |-> a, of |-> o, flip |-> FALSE]
  BY DEF Plain
<1>2. w.flip = FALSE /\ [Zero EXCEPT !.flip = TRUE].flip = TRUE
  BY SMT, <1>1 DEF Zero, Word
<1>3. w = [kind |-> w.kind, at |-> w.at, of |-> w.of, flip |-> w.flip]
  BY SMT, <1>1
<1> QED  BY <1>2, <1>3 DEF IsWord

\* get_plc_value, case by case.
LEMMA ConvertedBy ==
  ASSUME NEW t \in Rows, NEW old, NEW reg, NEW b, ~b
  PROVE  LET v == Converted(t, old, reg, b) IN
         /\ t.rbyteorder \in Orders =>
              t.rsize \in {2, 4} /\ v = Pull(old, reg, t.rsize, t.rbyteorder)
         /\ t.rbyteorder = "SNGL" => t.rsize = 1 /\ v = [Blank EXCEPT ![0] = reg[0]]
         /\ t.rbyteorder \in {"F10", "F100"} =>
              t.rsize = 1 /\ v = Computed(t.rbyteorder, 2, reg[0])
         /\ t.rbyteorder \in {"HEX", "BINARY"} => t.rsize = 1 /\ v = Blank
         /\ t.rsize = 0 => v = [i \in Place |-> Word("1234567890", i)]
<1>1. /\ t.rsize \in {0, 1, 2, 4}
      /\ t.rbyteorder \in Orders => t.rsize \in {2, 4}
      /\ t.rbyteorder = "SNGL" => t.rsize = 1 /\ t.rtype \in {"UINT16", "INT16"}
      /\ t.rbyteorder \in {"F10", "F100"} => t.rsize = 1 /\ t.rtype = t.rbyteorder
      /\ t.rbyteorder \in {"HEX", "BINARY"} => t.rsize = 1 /\ t.rtype = t.rbyteorder
  BY RowParts
<1>2. CASE t.rbyteorder \in Orders
  BY SMT, <1>1, <1>2 DEF Converted, Orders
<1>3. CASE t.rbyteorder = "SNGL"
  BY SMT, <1>1, <1>3 DEF Converted, Orders
<1>4. CASE t.rbyteorder \in {"F10", "F100"}
  BY SMT, <1>1, <1>4 DEF Converted, Orders
<1>5. CASE t.rbyteorder \in {"HEX", "BINARY"}
  BY SMT, <1>1, <1>5 DEF Converted, Orders
<1>6. CASE t.rsize = 0
  BY SMT, <1>1, <1>6 DEF Converted, Orders
<1> QED  BY <1>2, <1>3, <1>4, <1>5, <1>6

\* An undisturbed reading shows the registers that the file names, in the word
\* and byte order that the type is named for in reg_datatype.h, whatever was
\* loaded before and whatever the threads did (get_plc_value).
THEOREM ReadingIsAsNamed == Spec => ShownAsNamed
<1>1. ASSUME WInv, [Next]_vars, NEW n \in DOMAIN REGmap, Calm(n),
             NEW t, t = REGmap[n].prop,
             NEW w, w = [i \in Words(n) |-> Asked(n)[i].rvalue]
      PROVE  /\ t.rbyteorder \in Orders => Layout(t.rbyteorder, New(n), t.rsize) = w
             /\ t.rbyteorder = "SNGL" => New(n)[0] = w[0]
             /\ t.rbyteorder \in {"F10", "F100"} => New(n) = Computed(t.rbyteorder, 2, w[0])
  <2>1. PICK old, val, b : old = Entry(n).Number.value /\ val = task.val /\ b = task.bad
    OBVIOUS
  <2>2. t \in Rows /\ New(n) = Converted(t, old, val, b) /\ ~b
    BY <1>1, <2>1, CalmReads DEF Entry, Calm
  <2>3. Words(n) = 0 .. t.rsize - 1
    BY <1>1 DEF Words, Entry
  <2>4. ASSUME NEW i \in Words(n), t.rtype \notin {"HEX", "BINARY"}
        PROVE  val[i] = w[i] /\ IsWord(val[i])
    <3>1. PICK p : p = Entry(n).ptr[i]
      OBVIOUS
    <3>2. Asked(n)[i] = Reg(p) /\ task.val[i] = Reg(p).rvalue /\ Plain(Reg(p).rvalue)
      BY <1>1, <2>4, <3>1, CalmReads DEF Entry
    <3>3. w[i] = Asked(n)[i].rvalue
      BY <1>1
    <3> QED  BY <2>1, <3>2, <3>3, PlainIsWord
  <2>5. ASSUME t.rbyteorder \in Orders PROVE Layout(t.rbyteorder, New(n), t.rsize) = w
    <3>1. t.rsize \in {2, 4} /\ New(n) = Pull(old, val, t.rsize, t.rbyteorder)
      BY <2>2, <2>5, ConvertedBy
    <3>2. t.rtype \notin {"HEX", "BINARY"}
      BY SMT, <2>2, <2>5, RowParts DEF Orders
    <3>3. \A i \in 0 .. t.rsize - 1 : val[i] = w[i] /\ IsWord(val[i])
      BY <2>3, <2>4, <3>2
    <3>4. PICK m, o : m = t.rsize /\ o = t.rbyteorder
      OBVIOUS
    <3>6. /\ m \in {2, 4} /\ o \in Orders /\ New(n) = Pull(old, val, m, o)
          /\ \A i \in 0 .. m - 1 : IsWord(val[i])
      BY <2>5, <3>1, <3>3, <3>4
    <3>7. Layout(o, Pull(old, val, m, o), m) = [i \in 0 .. m - 1 |-> val[i]]
      BY <3>6, PulledAsNamed
    <3>5. w = [i \in 0 .. t.rsize - 1 |-> w[i]]
      BY <1>1, <2>3
    <3> QED  BY Zenon, <3>3, <3>4, <3>5, <3>6, <3>7
  <2>6. ASSUME t.rbyteorder \in {"SNGL", "F10", "F100"} PROVE val[0] = w[0]
    <3>1. t.rsize = 1 /\ t.rtype \notin {"HEX", "BINARY"}
      BY SMT, <2>2, <2>6, RowParts
    <3>2. 0 \in Words(n)
      BY SMT, <2>3, <3>1
    <3> QED  BY <2>4, <3>1, <3>2
  <2>7. ASSUME t.rbyteorder = "SNGL" PROVE New(n)[0] = w[0]
    <3>1. New(n) = [Blank EXCEPT ![0] = val[0]]
      BY <2>2, <2>7, ConvertedBy
    <3>2. New(n)[0] = val[0]
      BY SMT, <3>1 DEF Blank, Place
    <3> QED  BY <2>6, <2>7, <3>2
  <2>8. ASSUME t.rbyteorder \in {"F10", "F100"} PROVE New(n) = Computed(t.rbyteorder, 2, w[0])
    <3>1. New(n) = Computed(t.rbyteorder, 2, val[0])
      BY <2>2, <2>8, ConvertedBy
    <3> QED  BY <2>6, <2>8, <3>1
  <2> QED  BY <2>5, <2>7, <2>8
<1>2. WInv /\ [Next]_vars =>
        [\A n \in DOMAIN REGmap : Calm(n) =>
           LET p == REGmap[n].prop
               w == [i \in Words(n) |-> Asked(n)[i].rvalue]
           IN /\ p.rbyteorder \in {"BE", "BS", "LE", "LS"} =>
                   Layout(p.rbyteorder, New(n), p.rsize) = w
              /\ p.rbyteorder = "SNGL" => New(n)[0] = w[0]
              /\ p.rbyteorder \in {"F10", "F100"} =>
                   New(n) = Computed(p.rbyteorder, 2, w[0])]_vars
  BY <1>1 DEF Orders
<1> QED  BY <1>2, AtWork, PTL DEF Spec, ShownAsNamed

\* A number of several read-only words never mixes two answers of the device,
\* nor an answer with what stood there before the first, unless it was read
\* while read_allregs was copying an answer.
THEOREM AnswersStayWhole == Spec => WholeUnlessTorn
<1>1. ASSUME WInv, [Next]_vars, NEW n \in DOMAIN REGmap, Calm(n),
             \A i \in Words(n) : ~Asked(n)[i].rmode
      PROVE  \/ \A i \in Words(n) : Asked(n)[i].rvalue = NotYet
             \/ \E img \in Image : \A i \in Words(n) :
                  Asked(n)[i].rvalue = Word(img, Origin(n).addr + i)
  <2>1. /\ pc = "run" /\ (poll.op = "copy" => poll.left = Addresses)
        /\ \A i \in Words(n) : LET p == Entry(n).ptr[i] IN
             /\ p # Null /\ Exists(p) /\ Asked(n)[i] = Reg(p)
             /\ p.addr = Origin(n).addr + i /\ p.plc = PlcAt(Origin(n).plc)
    BY <1>1, CalmReads
  <2>2. Shape /\ Devices
    BY <1>1 DEF WInv, IInv, RInv, Calm
  <2>3. PICK k, o : k = PlcAt(Origin(n).plc) /\ o = Origin(n).addr
    OBVIOUS
  <2>4. ASSUME NEW i \in Words(n)
        PROVE  /\ k \in DOMAIN PLCvec /\ o + i \in DOMAIN PLCvec[k].regs
               /\ Asked(n)[i] = PLCvec[k].regs[o + i]
    BY Zenon, <2>1, <2>3 DEF Exists, Reg
  <2>5. CASE k # 1
    <3>1. Uncommanded
      BY <2>2 DEF Devices
    <3>2. ASSUME NEW i \in Words(n) PROVE Asked(n)[i].rvalue = NotYet
      <4>1. ~PLCvec[k].regs[o + i].rmode
        BY <1>1, <2>4
      <4>2. PLCvec[k].regs[o + i].rvalue = NotYet
        BY Zenon, <2>1, <2>4, <2>5, <3>1, <4>1 DEF Uncommanded
      <4> QED  BY <2>4, <4>2
    <3> QED  BY <3>2
  <2>6. CASE k = 1
    <3>1. Whole
      BY <2>1, <2>2 DEF Devices, Polling
    <3>2. ASSUME NEW i \in Words(n)
          PROVE  o + i \in Readable /\ Asked(n)[i] = PLCvec[1].regs[o + i]
      <4>1. 1 \in DOMAIN PLCvec /\ o + i \in DOMAIN PLCvec[1].regs
            /\ Asked(n)[i] = PLCvec[1].regs[o + i]
        BY <2>4, <2>6
      <4>2. Addresses = DOMAIN PLCvec[1].regs
        BY <2>2, <4>1, FirstPlc
      <4> QED  BY <1>1, <4>1, <4>2 DEF Readable
    <3> QED  BY Zenon, <2>3, <3>1, <3>2 DEF Whole
  <2> QED  BY <2>5, <2>6
<1>2. WInv /\ [Next]_vars =>
        [\A n \in DOMAIN REGmap : Calm(n) /\ (\A i \in Words(n) : ~Asked(n)[i].rmode) =>
           \/ \A i \in Words(n) : Asked(n)[i].rvalue = NotYet
           \/ \E img \in Image : \A i \in Words(n) :
                Asked(n)[i].rvalue = Word(img, Origin(n).addr + i)]_vars
  BY <1>1
<1> QED  BY <1>2, AtWork, PTL DEF Spec, WholeUnlessTorn

\* Word i of a command, and with its bytes exchanged.
LEMMA CommandWord ==
  ASSUME NEW c, NEW i \in Place
  PROVE  /\ Word(c, i).at = i /\ Word(c, i).of = <<>> /\ Word(c, i).flip = FALSE
         /\ Plain(Word(c, i))
         /\ i # 0 => Swapped(Word(c, i)).at = i /\ Swapped(Word(c, i)).flip = TRUE
<1>1. PICK w : w = Word(c, i)
  OBVIOUS
<1>2. /\ w = [kind |-> c, at |-> i, of |-> <<>>, flip |-> FALSE]
      /\ w.at = i /\ w.of = <<>> /\ w.flip = FALSE /\ w.kind = c
  BY SMT, <1>1 DEF Word
<1>3. Plain(w)
  BY <1>2 DEF Plain
<1>4. ASSUME i # 0 PROVE Swapped(w).at = i /\ Swapped(w).flip = TRUE
  <2>1. Zero.at = 0
    BY SMT DEF Zero, Word
  <2>2. PICK f, s : f = (~w.flip) /\ s = [w EXCEPT !.flip = f]
    OBVIOUS
  <2>3. f = TRUE
    BY <1>2, <2>2
  <2>4. Swapped(w) = s
    BY Zenon, <1>2, <1>4, <2>1, <2>2 DEF Swapped
  <2>5. s = [kind |-> c, at |-> i, of |-> <<>>, flip |-> f]
    BY SMT, <1>2, <2>2
  <2>6. s.at = i /\ s.flip = f
    BY SMT, <2>5
  <2> QED  BY <2>3, <2>4, <2>6
<1> QED  BY <1>1, <1>2, <1>3, <1>4

\* The command c on an entry of type t, as set_plc_value takes it apart.
Laid(c, m) == [i \in Place |-> IF i < m THEN Word(c, i) ELSE Zero]
CommandOf(t, c) == IF t.rbyteorder \in {"F10", "F100"}
                   THEN Computed(t.rbyteorder, 2, Word(c, 0))
                   ELSE Laid(c, t.rsize)

\* Where the words of a number of several words come from.
Several(n) == n \in {2, 4}

LEMMA PulledFrom ==
  ASSUME NEW old, NEW reg, NEW n, Several(n), NEW order \in Orders,
         \A k \in 0 .. n - 1 : IsWord(reg[k])
  PROVE  \A i \in 0 .. n - 1 :
           /\ order = "BE" => Pull(old, reg, n, order)[i] = reg[n - 1 - i]
           /\ order = "BS" => Pull(old, reg, n, order)[i] = Swapped(reg[n - 1 - i])
           /\ order = "LE" => Pull(old, reg, n, order)[i] = Swapped(reg[i])
           /\ order = "LS" => Pull(old, reg, n, order)[i] = reg[i]
<1>1. ASSUME NEW i \in 0 .. n - 1,
             NEW x, x = Pull(old, reg, n, order)[i], NEW a, a = reg[i],
             NEW b, b = reg[n - 1 - i]
      PROVE  /\ order = "BE" => x = b
             /\ order = "BS" => x = Swapped(b)
             /\ order = "LE" => x = Swapped(a)
             /\ order = "LS" => x = a
  <2>1. n - 1 - i \in 0 .. n - 1 /\ i \in Place /\ i < n
    BY SMT DEF Place, Several
  <2>2. n - 1 - (n - 1 - i) = i
    BY SMT DEF Several
  <2>3. IsWord(a)
    BY <1>1
  <2>4. Swapped(Swapped(a)) = a
    BY <2>3, SwappedTwice
  <2>5. CASE order = "BE"
    BY SMT, <1>1, <2>1, <2>2, <2>5 DEF Pull, Several, Turned, SwappedInWords
  <2>6. CASE order = "BS"
    BY SMT, <1>1, <2>1, <2>2, <2>6 DEF Pull, Several, Turned, SwappedInWords
  <2>7. CASE order = "LE"
    BY SMT, <1>1, <2>1, <2>2, <2>7 DEF Pull, Several, Turned, SwappedInWords
  <2>8. CASE order = "LS"
    BY SMT, <1>1, <2>1, <2>2, <2>4, <2>8 DEF Pull, Several, Turned, SwappedInWords
  <2> QED  BY <2>5, <2>6, <2>7, <2>8 DEF Orders
<1> QED  BY <1>1

LEMMA PulledAbove ==
  ASSUME NEW old, NEW reg, NEW n, Several(n), NEW order \in Orders,
         NEW i \in Place, i >= n
  PROVE  Pull(old, reg, n, order)[i] = old[i]
BY SMT DEF Pull, Place, Several

LEMMA WideReadBack ==
  ASSUME NEW old, NEW val, NEW c, NEW v, NEW m, NEW o \in Orders
  PROVE  /\ Several(m) /\ v = Laid(c, m)
         /\ \A i \in 0 .. m - 1 : val[i] = v[i]
         /\ \A i \in Place : i >= m => old[i] = Zero
         => (o = "LS" <=> Pull(old, val, m, o) = v)
<1>1. ASSUME Several(m) /\ v = Laid(c, m), \A i \in 0 .. m - 1 : val[i] = v[i],
             \A i \in Place : i >= m => old[i] = Zero
      PROVE  o = "LS" <=> Pull(old, val, m, o) = v
  <2>1. Several(m)
    BY <1>1
  <2>2. \A i \in Place : i >= m => old[i] = Zero
    BY <1>1
  <2>3. /\ m - 1 \in Place /\ 0 \in Place /\ 1 \in Place /\ m - 1 # 0
        /\ \A i \in 0 .. m - 1 : i \in Place /\ i < m
        /\ 0 \in 0 .. m - 1 /\ 1 \in 0 .. m - 1 /\ m - 1 \in 0 .. m - 1
        /\ \A i \in Place : i < m => i \in 0 .. m - 1
        /\ \A i \in Place : ~(i < m) => i >= m
        /\ m - 1 - 0 = m - 1
    BY SMT, <1>1 DEF Place, Several
  <2>4. \A i \in 0 .. m - 1 : val[i] = Word(c, i) /\ v[i] = Word(c, i)
    BY Zenon, <1>1, <2>3 DEF Laid
  <2>5. \A i \in 0 .. m - 1 : IsWord(val[i])
    <3>1. ASSUME NEW i \in 0 .. m - 1 PROVE IsWord(val[i])
      <4>1. i \in Place /\ val[i] = Word(c, i)
        BY <2>3, <2>4
      <4>2. Plain(Word(c, i))
        BY <4>1, CommandWord
      <4> QED  BY <4>1, <4>2, PlainIsWord
    <3> QED  BY <3>1
  <2>6. PICK q : q = Pull(old, val, m, o)
    OBVIOUS
  <2>7. ASSUME NEW i \in 0 .. m - 1
        PROVE  /\ o = "BE" => q[i] = val[m - 1 - i]
               /\ o = "BS" => q[i] = Swapped(val[m - 1 - i])
               /\ o = "LE" => q[i] = Swapped(val[i])
               /\ o = "LS" => q[i] = val[i]
    BY SMT, <2>1, <2>5, <2>6, PulledFrom
  <2>8. \A i \in Place : i >= m => q[i] = old[i]
    BY Zenon, <2>1, <2>6, PulledAbove
  <2>9. \A i \in Place : i >= m => q[i] = Zero
    BY <2>2, <2>8
  <2>10. q = [i \in Place |-> q[i]]
    BY <2>6 DEF Pull
  <2>11. CASE o = "LS"
    <3>1. \A i \in 0 .. m - 1 : q[i] = val[i]
      BY <2>7, <2>11
    <3>2. ASSUME NEW i \in Place PROVE q[i] = v[i]
      <4>1. CASE i < m
        BY <2>3, <2>4, <3>1, <4>1
      <4>2. CASE ~(i < m)
        <5>1. v[i] = Zero
          BY Zenon, <1>1, <4>2 DEF Laid
        <5> QED  BY <2>3, <2>9, <4>2, <5>1
      <4> QED  BY <4>1, <4>2
    <3>3. q = v
      BY Zenon, <1>1, <2>10, <3>2 DEF Laid
    <3> QED  BY <2>6, <2>11, <3>3
  <2>12. CASE o = "BE"
    <3>1. \A i \in 0 .. m - 1 : q[i] = val[m - 1 - i]
      BY <2>7, <2>12
    <3>2. q[0] = Word(c, m - 1) /\ v[0] = Word(c, 0)
      BY <2>3, <2>4, <3>1
    <3>3. Word(c, m - 1).at # Word(c, 0).at
      <4>1. PICK j : j = m - 1
        OBVIOUS
      <4>2. j \in Place /\ 0 \in Place /\ j # 0
        BY SMT, <2>3, <4>1
      <4>3. Word(c, j).at = j /\ Word(c, 0).at = 0
        BY Zenon, <4>2, CommandWord
      <4> QED  BY <4>1, <4>2, <4>3
    <3> QED  BY <2>6, <2>12, <3>2, <3>3
  <2>13. CASE o = "BS"
    <3>1. \A i \in 0 .. m - 1 : q[i] = Swapped(val[m - 1 - i])
      BY <2>7, <2>13
    <3>2. q[0] = Swapped(Word(c, m - 1)) /\ v[0] = Word(c, 0)
      BY <2>3, <2>4, <3>1
    <3>3. Swapped(Word(c, m - 1)).at # Word(c, 0).at
      <4>1. PICK j : j = m - 1
        OBVIOUS
      <4>2. j \in Place /\ 0 \in Place /\ j # 0
        BY SMT, <2>3, <4>1
      <4>3. Swapped(Word(c, j)).at = j /\ Word(c, 0).at = 0
        BY Zenon, <4>2, CommandWord
      <4> QED  BY <4>1, <4>2, <4>3
    <3> QED  BY <2>6, <2>13, <3>2, <3>3
  <2>14. CASE o = "LE"
    <3>1. \A i \in 0 .. m - 1 : q[i] = Swapped(val[i])
      BY <2>7, <2>14
    <3>2. q[1] = Swapped(Word(c, 1)) /\ v[1] = Word(c, 1)
      BY <2>3, <2>4, <3>1
    <3>3. Swapped(Word(c, 1)).flip # Word(c, 1).flip
      <4>1. PICK j : j = 1
        OBVIOUS
      <4>2. j \in Place /\ j # 0
        BY SMT, <2>3, <4>1
      <4>3. Swapped(Word(c, j)).flip = TRUE /\ Word(c, j).flip = FALSE
        BY Zenon, <4>2, CommandWord
      <4> QED  BY <4>1, <4>3
    <3> QED  BY <2>6, <2>14, <3>2, <3>3
  <2> QED  BY <2>11, <2>12, <2>13, <2>14 DEF Orders
<1> QED  BY <1>1

LEMMA GivenReadBack ==
  ASSUME NEW t \in Rows, NEW c, NEW old, Fills(old, t), NEW val, NEW v, v = CommandOf(t, c),
         v # Blank, NEW b, ~b,
         t.rtype \notin {"HEX", "BINARY"} => \A i \in 0 .. t.rsize - 1 : val[i] = v[i]
  PROVE  t.rbyteorder \in {"SNGL", "LS"} <=> Converted(t, old, val, b) = v
<1>1. /\ t.rsize \in {0, 1, 2, 4}
      /\ t.rbyteorder \in Orders => t.rsize \in {2, 4}
      /\ t.rbyteorder = "SNGL" => t.rsize = 1 /\ t.rtype \in {"UINT16", "INT16"}
      /\ t.rbyteorder \in {"F10", "F100"} => t.rsize = 1 /\ t.rtype = t.rbyteorder
      /\ t.rtype \in {"HEX", "BINARY"} => t.rbyteorder = t.rtype
      /\ t.rsize = 1 => t.rbyteorder \in {"SNGL", "F10", "F100", "HEX", "BINARY"}
      /\ t.rsize \in {2, 4} => t.rbyteorder \in Orders
  BY RowParts
<1>2. CASE t.rsize = 0
  <2>1. t.rbyteorder \notin {"F10", "F100"}
    BY SMT, <1>1, <1>2
  <2>2. v = [i \in Place |-> IF i < t.rsize THEN Word(c, i) ELSE Zero]
    BY <2>1 DEF CommandOf, Laid
  <2>3. \A i \in Place : ~(i < t.rsize)
    BY SMT, <1>2 DEF Place
  <2>4. v = Blank
    BY Zenon, <2>2, <2>3 DEF Blank
  <2> QED  BY <2>4
<1>3. CASE t.rbyteorder = "SNGL"
  <2>1. t.rsize = 1 /\ t.rtype \notin {"HEX", "BINARY"}
    BY SMT, <1>1, <1>3
  <2>2. v = [i \in Place |-> IF i < 1 THEN Word(c, i) ELSE Zero]
    BY SMT, <1>3, <2>1 DEF CommandOf, Laid
  <2>3. 0 \in 0 .. t.rsize - 1 /\ 0 \in Place /\ 0 < 1 /\ \A i \in Place : i < 1 <=> i = 0
    BY SMT, <2>1 DEF Place
  <2>4. val[0] = v[0]
    BY <2>1, <2>3
  <2>5. v[0] = Word(c, 0)
    BY Zenon, <2>2, <2>3
  <2>6. [Blank EXCEPT ![0] = val[0]] = v
    BY Zenon, <2>2, <2>3, <2>4, <2>5 DEF Blank
  <2> QED  BY <1>3, <2>6, ConvertedBy
<1>4. CASE t.rbyteorder \in {"F10", "F100"}
  <2>1. t.rsize = 1 /\ t.rtype \notin {"HEX", "BINARY"} /\ t.rbyteorder \notin {"SNGL", "LS"}
    BY SMT, <1>1, <1>4
  <2>2. PICK o, w, u : o = t.rbyteorder /\ w = val[0] /\ u = Word(c, 0)
    OBVIOUS
  <2>3. v = Computed(o, 2, u) /\ Converted(t, old, val, b) = Computed(o, 2, w)
    BY <1>4, <2>2, ConvertedBy DEF CommandOf
  <2>4. w = v[0]
    <3>1. 0 \in 0 .. t.rsize - 1
      BY SMT, <2>1
    <3> QED  BY <2>1, <2>2, <3>1
  <2>5. \A x : Computed(o, 2, x)[0] = [kind |-> o, at |-> 0, of |-> <<x>>, flip |-> FALSE]
    BY SMT DEF Computed, Place
  <2>6. \A x : Computed(o, 2, x)[0].of = <<x>>
    <3>1. ASSUME NEW x PROVE Computed(o, 2, x)[0].of = <<x>>
      <4>1. PICK s : s = <<x>>
        OBVIOUS
      <4>2. Computed(o, 2, x)[0] = [kind |-> o, at |-> 0, of |-> s, flip |-> FALSE]
        BY <2>5, <4>1
      <4>3. Computed(o, 2, x)[0].of = s
        BY SMT, <4>2
      <4> QED  BY <4>1, <4>3
    <3> QED  BY <3>1
  <2>7. w.of = <<u>> /\ u.of = <<>>
    <3>1. 0 \in Place
      BY SMT DEF Place
    <3> QED  BY <2>2, <2>3, <2>4, <2>6, <3>1, CommandWord
  <2>8. ASSUME Computed(o, 2, w) = Computed(o, 2, u) PROVE FALSE
    <3>1. <<w>> = <<u>>
      BY Zenon, <2>6, <2>8
    <3>2. w = u /\ <<u>> # <<>>
      BY SMT, <3>1
    <3> QED  BY Zenon, <2>7, <3>2
  <2> QED  BY <2>1, <2>3, <2>8
<1>5. CASE t.rbyteorder \in {"HEX", "BINARY"}
  <2>1. Converted(t, old, val, b) = Blank
    BY <1>5, ConvertedBy
  <2>2. t.rbyteorder \notin {"SNGL", "LS"}
    BY SMT, <1>5
  <2> QED  BY <2>1, <2>2
<1>6. CASE t.rbyteorder \in Orders
  <2>1. PICK m, o : m = t.rsize /\ o = t.rbyteorder
    OBVIOUS
  <2>2. /\ m \in {2, 4} /\ o \in Orders /\ t.rtype \notin {"HEX", "BINARY"}
        /\ o \notin {"F10", "F100", "SNGL"}
    BY SMT, <1>1, <1>6, <2>1 DEF Orders
  <2>3. v = Laid(c, m)
    BY <2>1, <2>2 DEF CommandOf
  <2>4. \A i \in 0 .. m - 1 : val[i] = v[i]
    BY <2>1, <2>2
  <2>5. \A i \in Place : i >= m => old[i] = Zero
    BY <1>6, <2>1 DEF Fills
  <2>6. Converted(t, old, val, b) = Pull(old, val, m, o)
    BY <1>6, <2>1, ConvertedBy
  <2>7. o = "LS" <=> Pull(old, val, m, o) = v
    BY <2>2, <2>3, <2>4, <2>5, WideReadBack DEF Several
  <2> QED  BY <2>1, <2>2, <2>6, <2>7
<1> QED  BY SMT, <1>1, <1>2, <1>3, <1>4, <1>5, <1>6

\* A command on an entry of a type that is not scaled and has its low word
\* first is read back as it was given, while nobody changes its registers, and
\* any other is not: set_plc_value does not know the byte order, so the task
\* sees news in its own command.
THEOREM CommandsReadBack == Spec => CommandReadsBack
<1>1. ASSUME WInv, [Next]_vars, NEW n \in DOMAIN cmd, Calm(n), cmd[n] # Blank
      PROVE  REGmap[n].prop.rbyteorder \in {"SNGL", "LS"} <=> New(n) = cmd[n]
  <2>1. Commanding /\ Resting
    BY <1>1 DEF WInv, RInv, InHand, Calm
  <2>2. pc = "run" /\ task.op = "read"
    BY <1>1, <2>1 DEF Resting, Calm
  <2>3. n \in DOMAIN REGmap
    BY <2>1, <2>2 DEF Commanding, Watched
  <2>4. PICK t, old, val, b : /\ t = REGmap[n].prop /\ old = Entry(n).Number.value
                              /\ val = task.val /\ b = task.bad
    OBVIOUS
  <2>5. t \in Rows /\ Fills(old, t) /\ New(n) = Converted(t, old, val, b) /\ ~b
    BY <1>1, <2>3, <2>4, CalmReads DEF Entry, Calm
  <2>6. Stands(n)
    BY <2>1 DEF Commanding, Standing
  <2>7. PICK c \in Command : cmd[n] = CommandOf(t, c)
    BY <1>1, <2>4, <2>6 DEF Stands, Commands, CommandOf, Laid, Entry
  <2>8. ASSUME t.rtype \notin {"HEX", "BINARY"}, NEW i \in Words(n)
        PROVE  val[i] = cmd[n][i]
    <3>1. PICK p : p = Entry(n).ptr[i]
      OBVIOUS
    <3>2. p # Null /\ task.val[i] = Reg(p).rvalue
      BY <1>1, <2>3, <2>4, <2>8, <3>1, CalmReads DEF Entry
    <3>3. Reached(n, i)
      BY <2>2 DEF Reached
    <3>4. Reg(p).rvalue = cmd[n][i]
      BY Zenon, <1>1, <2>6, <2>8, <3>1, <3>2, <3>3 DEF Stands
    <3> QED  BY <2>4, <3>2, <3>4
  <2>9. Words(n) = 0 .. t.rsize - 1
    BY <2>4 DEF Words, Entry
  <2>10. t.rtype \notin {"HEX", "BINARY"} => \A i \in 0 .. t.rsize - 1 : val[i] = cmd[n][i]
    BY <2>8, <2>9
  <2>11. t.rbyteorder \in {"SNGL", "LS"} <=> Converted(t, old, val, b) = cmd[n]
    BY <1>1, <2>5, <2>7, <2>10, GivenReadBack
  <2> QED  BY <2>4, <2>5, <2>11
<1>2. WInv /\ [Next]_vars =>
        [\A n \in DOMAIN cmd : Calm(n) /\ cmd[n] # Blank =>
           (REGmap[n].prop.rbyteorder \in {"SNGL", "LS"} <=> New(n) = cmd[n])]_vars
  BY <1>1
<1> QED  BY <1>2, AtWork, PTL DEF Spec, CommandReadsBack

=============================================================================
