--------------------------- MODULE RegistersProofs ---------------------------
(***************************************************************************)
(* Theorems about RegTypes, Config and Registers, for any words and any    *)
(* configuration files: what the conversions do, the types, and what the   *)
(* running tasks leave of PLCs and entries as it is.                       *)
(***************************************************************************)
EXTENDS Registers, TLAPS, SequenceTheorems, FiniteSetTheorems

-----------------------------------------------------------------------------
(* Words.                                                                  *)

\* The words there are: whatever they hold, with their bytes exchanged or not,
\* but Zero looks the same then.
IsWord(w) ==
  /\ w = [kind |-> w.kind, at |-> w.at, of |-> w.of, flip |-> w.flip]
  /\ w.flip \in BOOLEAN
  /\ w # [Zero EXCEPT !.flip = TRUE]

\* Exchanging the bytes of a word twice gives the word back.
LEMMA SwappedTwice ==
  ASSUME NEW w, IsWord(w)
  PROVE  IsWord(Swapped(w)) /\ Swapped(Swapped(w)) = w
<1>1. CASE w = Zero
  BY <1>1 DEF Swapped
<1>2. CASE w # Zero
  <2>1. PICK s : s = [kind |-> w.kind, at |-> w.at, of |-> w.of, flip |-> ~w.flip]
    OBVIOUS
  <2>2. Swapped(w) = s
    BY SMT, <1>2, <2>1 DEF Swapped, IsWord
  <2>3. s # Zero /\ IsWord(s)
    BY SMT, <1>2, <2>1 DEF IsWord, Zero, Word
  <2>4. Swapped(s) = [kind |-> w.kind, at |-> w.at, of |-> w.of, flip |-> ~s.flip]
    BY SMT, <2>1, <2>3 DEF Swapped
  <2>5. (~s.flip) = w.flip
    BY Zenon, <2>1 DEF IsWord
  <2> QED  BY Zenon, <2>2, <2>3, <2>4, <2>5 DEF IsWord
<1> QED  BY <1>1, <1>2

-----------------------------------------------------------------------------
(* From the registers to a value.                                          *)

Orders == {"BE", "BS", "LE", "LS"}

\* Word i of the value, for any order: it comes from register n - 1 - i, or i.
LEMMA PulledWord ==
  ASSUME NEW old, NEW reg, NEW n, n \in {2, 4}, NEW order \in Orders,
         NEW i \in 0 .. n - 1,
         \A k \in 0 .. n - 1 : IsWord(reg[k])
  PROVE  Pull(old, reg, n, order)[i] =
           CASE order = "BE" -> reg[n - 1 - i]
             [] order = "BS" -> Swapped(reg[n - 1 - i])
             [] order = "LE" -> Swapped(reg[i])
             [] order = "LS" -> reg[i]
<1>1. i \in Place /\ i < n /\ n - 1 - i \in 0 .. n - 1 /\ n - 1 - (n - 1 - i) = i
  BY SMT DEF Place
<1>2. Swapped(Swapped(reg[i])) = reg[i]
  BY <1>1, SwappedTwice
<1>3. CASE order = "BE"
  BY SMT, <1>1, <1>3 DEF Pull, Turned, SwappedInWords
<1>4. CASE order = "BS"
  BY SMT, <1>1, <1>4 DEF Pull, Turned, SwappedInWords
<1>5. CASE order = "LE"
  BY SMT, <1>1, <1>5 DEF Pull, Turned, SwappedInWords
<1>6. CASE order = "LS"
  BY SMT, <1>1, <1>2, <1>6 DEF Pull, Turned, SwappedInWords
<1> QED  BY SMT, <1>3, <1>4, <1>5, <1>6 DEF Orders

\* A number read in any of the four orders holds every register in the word,
\* and with its bytes in the order, that the type is named for in
\* reg_datatype.h, whatever was read (pull_plc_value32, pull_plc_value64).
THEOREM PulledAsNamed ==
  ASSUME NEW old, NEW reg, NEW n, n \in {2, 4}, NEW order \in Orders,
         \A k \in 0 .. n - 1 : IsWord(reg[k])
  PROVE  Layout(order, Pull(old, reg, n, order), n) = [i \in 0 .. n - 1 |-> reg[i]]
<1> DEFINE v == Pull(old, reg, n, order)
           of(i) == IF HighWordFirst(order) THEN n - 1 - i ELSE i
           laid(i) == IF HighByteFirst(order) THEN v[of(i)] ELSE Swapped(v[of(i)])
<1>1. ASSUME NEW i \in 0 .. n - 1
      PROVE  laid(i) = reg[i]
  <2>1. n - 1 - i \in 0 .. n - 1 /\ n - 1 - (n - 1 - i) = i
    BY SMT
  <2>2. Swapped(Swapped(reg[i])) = reg[i]
    BY SwappedTwice
  <2>3. CASE order = "BE"
    <3>1. v[n - 1 - i] = reg[i]
      BY SMT, <2>1, <2>3, PulledWord
    <3> QED  BY SMT, <2>3, <3>1 DEF HighWordFirst, HighByteFirst
  <2>4. CASE order = "BS"
    <3>1. v[n - 1 - i] = Swapped(reg[i])
      BY SMT, <2>1, <2>4, PulledWord
    <3> QED  BY SMT, <2>2, <2>4, <3>1 DEF HighWordFirst, HighByteFirst
  <2>5. CASE order = "LE"
    <3>1. v[i] = Swapped(reg[i])
      BY SMT, <2>5, PulledWord
    <3> QED  BY SMT, <2>2, <2>5, <3>1 DEF HighWordFirst, HighByteFirst
  <2>6. CASE order = "LS"
    <3>1. v[i] = reg[i]
      BY SMT, <2>6, PulledWord DEF Orders
    <3> QED  BY SMT, <2>6, <3>1 DEF HighWordFirst, HighByteFirst
  <2> QED  BY <2>3, <2>4, <2>5, <2>6 DEF Orders
<1>2. Layout(order, v, n) = [i \in 0 .. n - 1 |-> laid(i)]
  BY DEF Layout
<1> QED  BY Zenon, <1>1, <1>2

\* What lies above the words of the type is left from before (pull_plc_value32
\* stores into two words of the union).
THEOREM PulledLeavesRest ==
  ASSUME NEW old, NEW reg, NEW n \in {2, 4}, NEW order \in Orders,
         NEW i \in Place, i >= n
  PROVE  Pull(old, reg, n, order)[i] = old[i]
BY SMT DEF Pull, Place

-----------------------------------------------------------------------------
(* From a value to the registers and back.                                 *)

\* A word is the same with its bytes exchanged only when it is zero, or not
\* known to differ.
LEMMA SwappedDiffers ==
  ASSUME NEW w, IsWord(w)
  PROVE  Swapped(w) = w <=> w = Zero
<1>1. CASE w = Zero
  BY <1>1 DEF Swapped
<1>2. CASE w # Zero
  <2>1. PICK s : s = [kind |-> w.kind, at |-> w.at, of |-> w.of, flip |-> ~w.flip]
    OBVIOUS
  <2>2. Swapped(w) = s
    BY SMT, <1>2, <2>1 DEF Swapped, IsWord
  <2>3. s.flip # w.flip
    BY SMT, <2>1 DEF IsWord
  <2> QED  BY <1>2, <2>2, <2>3
<1> QED  BY <1>1, <1>2

\* set_plc_value gives word i to register i, whatever the order ("byte-order
\* not supported yet").  So a command is read back as it was given exactly
\* when the order is LS, or where its words happen to be symmetric.
Symmetric(v, n, order) ==
  CASE order = "LS" -> TRUE
    [] order = "BE" -> \A i \in 0 .. n - 1 : v[i] = v[n - 1 - i]
    [] order = "BS" -> \A i \in 0 .. n - 1 : v[i] = Swapped(v[n - 1 - i])
    [] order = "LE" -> \A i \in 0 .. n - 1 : v[i] = Zero

THEOREM CommandReadBack ==
  ASSUME NEW old, NEW v, NEW n \in {2, 4}, NEW order \in Orders,
         \A k \in 0 .. n - 1 : IsWord(v[k])
  PROVE  (\A i \in 0 .. n - 1 : Pull(old, v, n, order)[i] = v[i])
           <=> Symmetric(v, n, order)
<1>1. CASE order = "LS"
  <2>1. \A i \in 0 .. n - 1 : Pull(old, v, n, order)[i] = v[i]
    BY SMT, <1>1, PulledWord
  <2> QED  BY <1>1, <2>1 DEF Symmetric
<1>2. CASE order = "BE"
  <2>1. \A i \in 0 .. n - 1 : Pull(old, v, n, order)[i] = v[n - 1 - i]
    BY SMT, <1>2, PulledWord
  <2> QED  BY SMT, <1>2, <2>1 DEF Symmetric
<1>3. CASE order = "BS"
  <2>1. \A i \in 0 .. n - 1 : Pull(old, v, n, order)[i] = Swapped(v[n - 1 - i])
    BY SMT, <1>3, PulledWord
  <2> QED  BY SMT, <1>3, <2>1 DEF Symmetric
<1>4. CASE order = "LE"
  <2>1. \A i \in 0 .. n - 1 : Pull(old, v, n, order)[i] = Swapped(v[i])
    BY SMT, <1>4, PulledWord
  <2> QED  BY SMT, <1>4, <2>1, SwappedDiffers DEF Symmetric
<1> QED  BY <1>1, <1>2, <1>3, <1>4 DEF Orders

-----------------------------------------------------------------------------
(* Numbers.                                                                *)

\* A number takes one, two or four words, those of its type if it has one.
Fitting(x) ==
  /\ x = [ua |-> x.ua, words |-> x.words, isgood |-> x.isgood, value |-> x.value]
  /\ x.words \in {1, 2, 4}
  /\ Known(x.ua) => x.words = type_attr[x.ua].words

LEMMA Widths ==
  /\ \A g : Known(g) => /\ type_attr[g].words \in {1, 2, 4}
                       /\ Known(type_attr[g].ua)
                       /\ type_attr[type_attr[g].ua].words = type_attr[g].words
  /\ Known("UINT16") /\ type_attr["UINT16"].words = 1
  /\ ~Known("none")
<1>1. DOMAIN type_attr = {"INT16", "UINT16", "INT32", "UINT32", "FLOAT", "F10", "F100",
                          "INT64", "UINT64", "DOUBLE"}
  BY SMT DEF type_attr, Fits
<1>2. \A g \in DOMAIN type_attr :
        /\ type_attr[g].words = Fits[g]
        /\ type_attr[g].ua = IF g \in {"F10", "F100"} THEN "FLOAT" ELSE g
  BY SMT DEF type_attr
<1>3. /\ Fits["INT16"] = 1 /\ Fits["UINT16"] = 1
      /\ Fits["INT32"] = 2 /\ Fits["UINT32"] = 2 /\ Fits["FLOAT"] = 2
      /\ Fits["F10"] = 2 /\ Fits["F100"] = 2
      /\ Fits["INT64"] = 4 /\ Fits["UINT64"] = 4 /\ Fits["DOUBLE"] = 4
  BY SMT DEF Fits
<1> QED  BY SMT, <1>1, <1>2, <1>3 DEF Known

\* Whatever is assigned to a number, and whatever type it is given, it stays as
\* wide as its type (Number_c: the constructor, set_type, operator=).
THEOREM NumbersFit ==
  ASSUME NEW x, NEW y, NEW w, NEW g, Fitting(x), Fitting(y)
  PROVE  /\ Fitting(NewNumber(w)) /\ Fitting(SetType(x, g)) /\ Fitting(SetNumber(x, y))
         /\ Fitting(SetValue(x, w)) /\ Fitting(Assign(x, w))
<1>1. Fitting(NewNumber(w))
  BY SMT, Widths DEF Fitting, NewNumber
<1>2. ASSUME NEW h PROVE Fitting(SetType(x, h))
  <2>1. CASE Known(h)
    <3>1. PICK u, n : u = type_attr[h].ua /\ n = type_attr[h].words
      OBVIOUS
    <3>2. n \in {1, 2, 4} /\ (Known(u) => n = type_attr[u].words)
      BY <2>1, <3>1, Widths
    <3>3. SetType(x, h) = [ua |-> u, words |-> n, isgood |-> TRUE, value |-> Blank]
      BY <2>1, <3>1 DEF SetType
    <3> QED  BY SMT, <3>2, <3>3 DEF Fitting
  <2>2. CASE ~Known(h)
    <3>1. PICK u, n, b, v : x = [ua |-> u, words |-> n, isgood |-> b, value |-> v]
      BY DEF Fitting
    <3>2. PICK no : no = FALSE
      OBVIOUS
    <3>3. PICK x1 : x1 = [ua |-> "none", words |-> n, isgood |-> b, value |-> v]
      OBVIOUS
    <3>4. PICK x2 : x2 = [ua |-> "none", words |-> n, isgood |-> no, value |-> v]
      OBVIOUS
    <3>5. [x EXCEPT !.ua = "none"] = x1
      BY SMT, <3>1, <3>3
    <3>6. [x1 EXCEPT !.isgood = no] = x2
      BY SMT, <3>3, <3>4
    <3>7. [x2 EXCEPT !.value = Blank]
            = [ua |-> "none", words |-> n, isgood |-> no, value |-> Blank]
      BY SMT, <3>4
    <3>8. SetType(x, h) = [[[x EXCEPT !.ua = "none"] EXCEPT !.isgood = no]
                             EXCEPT !.value = Blank]
      BY Zenon, <2>2, <3>2 DEF SetType
    <3>9. SetType(x, h) = [ua |-> "none", words |-> n, isgood |-> no, value |-> Blank]
      BY <3>5, <3>6, <3>7, <3>8
    <3> QED  BY SMT, <3>1, <3>9, Widths DEF Fitting
  <2> QED  BY <2>1, <2>2
<1>3. Fitting(SetNumber(x, y))
  <2>1. CASE Known(y.ua)
    <3>1. PICK u, n, b, v : y = [ua |-> u, words |-> n, isgood |-> b, value |-> v]
      BY DEF Fitting
    <3>2. PICK m, low : m = type_attr[u].words /\ low = Low(v, type_attr[u].words, Blank)
      OBVIOUS
    <3>3. PICK y1 : y1 = [ua |-> u, words |-> m, isgood |-> b, value |-> v]
      OBVIOUS
    <3>4. /\ y.ua = u /\ y.value = v
          /\ [y EXCEPT !.words = m] = y1
          /\ [y1 EXCEPT !.value = low]
               = [ua |-> u, words |-> m, isgood |-> b, value |-> low]
      BY SMT, <3>1, <3>3
    <3>5. SetNumber(x, y) = [[y EXCEPT !.words = m] EXCEPT !.value = low]
      BY Zenon, <2>1, <3>2, <3>4 DEF SetNumber
    <3>6. SetNumber(x, y) = [ua |-> u, words |-> m, isgood |-> b, value |-> low]
      BY <3>4, <3>5
    <3> QED  BY SMT, <2>1, <3>1, <3>2, <3>6, Widths DEF Fitting
  <2>2. CASE ~Known(y.ua)
    BY <1>2, <2>2 DEF SetNumber
  <2> QED  BY <2>1, <2>2
<1>4. Fitting(SetValue(x, w))
  BY SMT DEF Fitting, SetValue
<1> QED  BY <1>1, <1>2, <1>3, <1>4 DEF Assign

\* A number never keeps more of another than its type has room for
\* (number_u, set of Number_c).
THEOREM NoMoreThanFits ==
  ASSUME NEW x, NEW y, NEW i \in Place, Known(y.ua), i >= type_attr[y.ua].words,
         y = [ua |-> y.ua, words |-> y.words, isgood |-> y.isgood, value |-> y.value]
  PROVE  SetNumber(x, y).value[i] = Zero
<1>1. SetNumber(x, y).value = Low(y.value, type_attr[y.ua].words, Blank)
  BY SMT DEF SetNumber
<1> QED  BY SMT, <1>1, Widths DEF Low, Blank, Place

-----------------------------------------------------------------------------
(* Sequences.                                                              *)

LEMMA SeqParts ==
  ASSUME NEW s, IsSeq(s)
  PROVE  Len(s) \in Nat /\ DOMAIN s = 1 .. Len(s) /\ s = [i \in 1 .. Len(s) |-> s[i]]
BY SMT DEF IsSeq

LEMMA EmptyIsSeq == IsSeq(<<>>) /\ Len(<<>>) = 0 /\ DOMAIN <<>> = {}
BY SMT DEF IsSeq

\* A function on the positions of a sequence is one too.
LEMMA Remade ==
  ASSUME NEW s, IsSeq(s), NEW t, t = [k \in DOMAIN s |-> t[k]]
  PROVE  IsSeq(t) /\ Len(t) = Len(s) /\ DOMAIN t = DOMAIN s
<1>1. Len(s) \in Nat /\ DOMAIN s = 1 .. Len(s)
  BY SeqParts
<1>2. \A k \in 1 .. Len(s) : t[k] \in SetOf(t)
  BY SMT, <1>1 DEF SetOf
<1>3. t \in [1 .. Len(s) -> SetOf(t)]
  BY SMT, <1>1, <1>2
<1>4. t \in Seq(SetOf(t))
  BY SMT, <1>1, <1>3, SeqDef
<1> QED  BY SMT, <1>1, <1>3, <1>4 DEF IsSeq

LEMMA Appended ==
  ASSUME NEW s, IsSeq(s), NEW e
  PROVE  LET t == Append(s, e)
         IN /\ IsSeq(t) /\ Len(t) = Len(s) + 1 /\ DOMAIN t = 1 .. Len(s) + 1
            /\ \A i \in 1 .. Len(s) : t[i] = s[i]
            /\ t[Len(s) + 1] = e
<1> DEFINE t == Append(s, e)
           S == SetOf(s) \cup {e}
<1>1. s \in Seq(S) /\ e \in S
  BY SMT DEF IsSeq
<1>2. /\ t \in Seq(S) /\ Len(t) = Len(s) + 1 /\ DOMAIN t = 1 .. Len(s) + 1
      /\ \A i \in 1 .. Len(s) : t[i] = s[i]
      /\ t[Len(s) + 1] = e
  BY SMT, <1>1
<1>3. IsSeq(t)
  BY SMT, <1>2 DEF IsSeq, SetOf
<1> QED  BY <1>2, <1>3

-----------------------------------------------------------------------------
(* What stays of the PLCs and the entries while the program runs.          *)

\* The register s is r with another word, or found in error or not.
SameReg(r, s) ==
  s.name = r.name /\ s.folder = r.folder /\ s.rmode = r.rmode /\ s.r_next = r.r_next

SameTable(R, S) ==
  /\ DOMAIN S = DOMAIN R
  /\ \A a \in DOMAIN R : SameReg(R[a], S[a])

\* The vector U has the PLCs of V, with their registers.
SameVec(V, U) ==
  /\ IsSeq(U) /\ DOMAIN U = DOMAIN V /\ Len(U) = Len(V)
  /\ \A k \in DOMAIN V :
       /\ U[k].name = V[k].name /\ U[k].folder = V[k].folder /\ U[k].lock = V[k].lock
       /\ SameTable(V[k].regs, U[k].regs)

LEMMA SameVecTwice ==
  ASSUME NEW V, NEW U, NEW T, SameVec(V, U), SameVec(U, T)
  PROVE  SameVec(V, T)
<1>1. \A r, s, t : SameReg(r, s) /\ SameReg(s, t) => SameReg(r, t)
  BY SMT DEF SameReg
<1>2. \A R, S, Q : SameTable(R, S) /\ SameTable(S, Q) => SameTable(R, Q)
  BY SMT, <1>1 DEF SameTable
<1> QED  BY SMT, <1>2 DEF SameVec

LEMMA SameSelf == /\ \A R : SameTable(R, R)
                  /\ \A V : IsSeq(V) => SameVec(V, V)
<1>1. \A R : SameTable(R, R)
  BY Zenon DEF SameTable, SameReg
<1> QED  BY Zenon, <1>1 DEF SameVec

\* A PLC object is replaced by one with the same registers.
LEMMA ObjectSet ==
  ASSUME NEW V, IsSeq(V), NEW k, NEW D,
         k \in DOMAIN V =>
           /\ D.name = V[k].name /\ D.folder = V[k].folder /\ D.lock = V[k].lock
           /\ SameTable(V[k].regs, D.regs)
  PROVE  SameVec(V, [V EXCEPT ![k] = D])
<1>1. PICK U : U = [j \in DOMAIN V |-> IF j = k THEN D ELSE V[j]]
  OBVIOUS
<1>2. [V EXCEPT ![k] = D] = U
  BY SMT, <1>1
<1>3. U = [j \in DOMAIN V |-> U[j]]
  BY SMT, <1>1
<1>4. IsSeq(U) /\ Len(U) = Len(V) /\ DOMAIN U = DOMAIN V
  BY <1>3, Remade
<1>5. \A j \in DOMAIN V : U[j] = IF j = k THEN D ELSE V[j]
  BY SMT, <1>1
<1>6. SameVec(V, U)
  BY Zenon, <1>4, <1>5, SameSelf DEF SameVec
<1> QED  BY <1>2, <1>6

\* A PLC object gets another table of the same registers.
LEMMA TableSet ==
  ASSUME NEW V, IsSeq(V), NEW k, NEW R,
         k \in DOMAIN V => SameTable(V[k].regs, R)
  PROVE  SameVec(V, [V EXCEPT ![k].regs = R])
<1>1. PICK D : D = [V[k] EXCEPT !.regs = R]
  OBVIOUS
<1>2. /\ D.name = V[k].name /\ D.folder = V[k].folder /\ D.lock = V[k].lock
      /\ D.regs = V[k].regs \/ D.regs = R
  BY SMT, <1>1
<1>3. k \in DOMAIN V =>
        /\ D.name = V[k].name /\ D.folder = V[k].folder /\ D.lock = V[k].lock
        /\ SameTable(V[k].regs, D.regs)
  BY Zenon, <1>2, SameSelf
<1>4. [V EXCEPT ![k].regs = R] = [V EXCEPT ![k] = D]
  BY Zenon, <1>1
<1>5. SameVec(V, [V EXCEPT ![k] = D])
  BY Zenon, <1>3, ObjectSet
<1> QED  BY <1>4, <1>5

\* A field of a register is set.
LEMMA FieldSet ==
  ASSUME NEW V, IsSeq(V), NEW k, NEW a, NEW w
  PROVE  /\ SameVec(V, [V EXCEPT ![k].regs[a].rvalue = w])
         /\ SameVec(V, [V EXCEPT ![k].regs[a].rupdate = w])
         /\ SameVec(V, [V EXCEPT ![k].regs[a].rerrors = w])
<1>1. ASSUME NEW r, SameReg(V[k].regs[a], r)
      PROVE  SameVec(V, [V EXCEPT ![k].regs = [V[k].regs EXCEPT ![a] = r]])
  <2>1. PICK R : R = [V[k].regs EXCEPT ![a] = r]
    OBVIOUS
  <2>2. DOMAIN R = DOMAIN V[k].regs
        /\ \A b \in DOMAIN R : R[b] = IF b = a THEN r ELSE V[k].regs[b]
    BY SMT, <2>1
  <2>3. SameTable(V[k].regs, R)
    BY Zenon, <1>1, <2>2 DEF SameTable, SameReg
  <2>4. SameVec(V, [V EXCEPT ![k].regs = R])
    BY <2>3, TableSet
  <2> QED  BY <2>1, <2>4
<1>2. SameVec(V, [V EXCEPT ![k].regs[a].rvalue = w])
  <2>1. SameReg(V[k].regs[a], [V[k].regs[a] EXCEPT !.rvalue = w])
    BY SMT DEF SameReg
  <2>2. [V EXCEPT ![k].regs[a].rvalue = w]
          = [V EXCEPT ![k].regs = [V[k].regs EXCEPT ![a] = [V[k].regs[a] EXCEPT !.rvalue = w]]]
    BY Zenon
  <2> QED  BY Zenon, <1>1, <2>1, <2>2
<1>3. SameVec(V, [V EXCEPT ![k].regs[a].rupdate = w])
  <2>1. SameReg(V[k].regs[a], [V[k].regs[a] EXCEPT !.rupdate = w])
    BY SMT DEF SameReg
  <2>2. [V EXCEPT ![k].regs[a].rupdate = w]
          = [V EXCEPT ![k].regs = [V[k].regs EXCEPT ![a] = [V[k].regs[a] EXCEPT !.rupdate = w]]]
    BY Zenon
  <2> QED  BY Zenon, <1>1, <2>1, <2>2
<1>4. SameVec(V, [V EXCEPT ![k].regs[a].rerrors = w])
  <2>1. SameReg(V[k].regs[a], [V[k].regs[a] EXCEPT !.rerrors = w])
    BY SMT DEF SameReg
  <2>2. [V EXCEPT ![k].regs[a].rerrors = w]
          = [V EXCEPT ![k].regs = [V[k].regs EXCEPT ![a] = [V[k].regs[a] EXCEPT !.rerrors = w]]]
    BY Zenon
  <2> QED  BY Zenon, <1>1, <2>1, <2>2
<1> QED  BY <1>2, <1>3, <1>4

\* No step of the polling thread or of the refresh task does more to the PLCs.
LEMMA RunKeepsVec ==
  ASSUME IsSeq(PLCvec), Poller \/ Refresher \/ Start \/ Stop
  PROVE  SameVec(PLCvec, PLCvec') /\ buffer' = buffer /\ capacity' = capacity
<1>0. SameVec(PLCvec, PLCvec)
  BY SameSelf
<1>1. ASSUME NEW e, Rerrors(e)
      PROVE  SameVec(PLCvec, PLCvec')
  <2>1. CASE PLCvec = <<>>
    <3>1. DOMAIN PLCvec = {}
      BY <2>1, EmptyIsSeq
    <3>2. 1 \in DOMAIN PLCvec => FALSE
      BY <3>1
    <3> QED  BY Zenon, <1>1, <3>2, TableSet DEF Rerrors
  <2>2. CASE PLCvec # <<>>
    <3>1. PICK R : R = [a \in Addresses |-> [PLCvec[1].regs[a] EXCEPT !.rerrors = e]]
      OBVIOUS
    <3>2. SameTable(PLCvec[1].regs, R)
      BY SMT, <2>2, <3>1 DEF Addresses, SameTable, SameReg
    <3>3. PLCvec' = [PLCvec EXCEPT ![1].regs = R]
      BY Zenon, <1>1, <3>1 DEF Rerrors
    <3> QED  BY Zenon, <3>2, <3>3, TableSet
  <2> QED  BY <2>1, <2>2
<1>2. ASSUME NEW k, NEW a, NEW w, NEW u,
             \/ PLCvec' = [PLCvec EXCEPT ![k].regs[a].rvalue = w, ![k].regs[a].rupdate = u]
             \/ PLCvec' = [PLCvec EXCEPT ![k].regs[a].rupdate = w, ![k].regs[a].rerrors = u]
      PROVE  SameVec(PLCvec, PLCvec')
  <2>1. PICK V, U : V = [PLCvec EXCEPT ![k].regs[a].rvalue = w]
                    /\ U = [PLCvec EXCEPT ![k].regs[a].rupdate = w]
    OBVIOUS
  <2>2. \/ PLCvec' = [V EXCEPT ![k].regs[a].rupdate = u]
        \/ PLCvec' = [U EXCEPT ![k].regs[a].rerrors = u]
    BY Zenon, <1>2, <2>1
  <2>3. SameVec(PLCvec, V) /\ SameVec(PLCvec, U)
    BY <2>1, FieldSet
  <2>4. IsSeq(V) /\ IsSeq(U)
    BY <2>3 DEF SameVec
  <2>5. SameVec(V, PLCvec') \/ SameVec(U, PLCvec')
    <3>1. SameVec(V, [V EXCEPT ![k].regs[a].rupdate = u])
      BY <2>4, FieldSet
    <3>2. SameVec(U, [U EXCEPT ![k].regs[a].rerrors = u])
      BY <2>4, FieldSet
    <3> QED  BY <2>2, <3>1, <3>2
  <2> QED  BY Zenon, <2>3, <2>5, SameVecTwice
<1>3. CASE PollFails \/ CopyEnds
  BY <1>1, <1>3 DEF PollFails, CopyEnds, loaded
<1>4. CASE CopyReg
  BY Zenon, <1>4, FieldSet DEF CopyReg, loaded
<1>5. ASSUME NEW ok, WriteReg(ok)
      PROVE  SameVec(PLCvec, PLCvec') /\ buffer' = buffer /\ capacity' = capacity
  <2> DEFINE a == First(poll.left)
  <2>1. CASE Reg(At(a)).rupdate
    <3>1. PLCvec' = [PLCvec EXCEPT ![1].regs[a].rupdate = ~ok, ![1].regs[a].rerrors = ~ok]
      BY Zenon, <1>5, <2>1 DEF WriteReg
    <3>2. SameVec(PLCvec, PLCvec')
      BY Zenon, <1>2, <3>1
    <3> QED  BY Zenon, <1>5, <3>2 DEF WriteReg, loaded
  <2>2. CASE ~Reg(At(a)).rupdate
    BY Zenon, <1>0, <1>5, <2>2 DEF WriteReg, loaded
  <2> QED  BY <2>1, <2>2
<1>6. CASE WriteWord
  <2> DEFINE p == Target(task.n, task.i)
             w == task.val[task.i]
  <2>1. CASE p # Null /\ Reg(p).rmode /\ Reg(p).rvalue # w
    <3>1. PLCvec' = [PLCvec EXCEPT ![p.plc].regs[p.addr].rvalue = w,
                                   ![p.plc].regs[p.addr].rupdate = TRUE]
      BY Zenon, <1>6, <2>1 DEF WriteWord
    <3>2. SameVec(PLCvec, PLCvec')
      BY Zenon, <1>2, <3>1
    <3> QED  BY Zenon, <1>6, <3>2 DEF WriteWord, loaded
  <2>2. CASE ~(p # Null /\ Reg(p).rmode /\ Reg(p).rvalue # w)
    BY Zenon, <1>0, <1>6, <2>2 DEF WriteWord, loaded
  <2> QED  BY <2>1, <2>2
<1>7. ASSUME UNCHANGED <<PLCvec, buffer, capacity>>
      PROVE  SameVec(PLCvec, PLCvec') /\ buffer' = buffer /\ capacity' = capacity
  BY <1>0, <1>7
<1>8. CASE Start \/ Stop
  BY Zenon, <1>7, <1>8 DEF Start, Stop
<1>9. CASE WriteEnds \/ \E now \in {dev} \cup {Device(img) : img \in Image} : PollAnswered(now)
  BY Zenon, <1>7, <1>9 DEF WriteEnds, PollAnswered, config
<1>10. CASE ReadWord \/ ReadEnds \/ WriteDone
  BY Zenon, <1>7, <1>10 DEF ReadWord, ReadEnds, WriteDone, loaded
<1>11. ASSUME NEW n, ReadBegins(n) \/ (\E v : WriteBegins(n, v) \/ TakeOpc(n, v))
       PROVE  SameVec(PLCvec, PLCvec') /\ buffer' = buffer /\ capacity' = capacity
  BY Zenon, <1>7, <1>11 DEF ReadBegins, WriteBegins, TakeOpc, loaded, config
<1> QED
  BY Zenon, <1>3, <1>4, <1>5, <1>6, <1>8, <1>9, <1>10, <1>11 DEF Poller, Refresher

\* The entry f is e with another value, or found in error or not.
SameEntry(e, f) ==
  /\ f.kind = e.kind /\ f.rw = e.rw /\ f.prop = e.prop /\ f.ptr = e.ptr /\ f.path = e.path
  /\ Fitting(e.Number) => Fitting(f.Number) /\ f.Number.ua = e.Number.ua

SameEntries(R, S) ==
  /\ DOMAIN S = DOMAIN R
  /\ \A n \in DOMAIN R : SameEntry(R[n], S[n])

LEMMA FittingValue ==
  ASSUME NEW x, NEW v, Fitting(x)
  PROVE  Fitting([x EXCEPT !.value = v]) /\ [x EXCEPT !.value = v].ua = x.ua
<1>1. PICK u, n, b, y : x = [ua |-> u, words |-> n, isgood |-> b, value |-> y]
  BY DEF Fitting
<1>2. [x EXCEPT !.value = v] = [ua |-> u, words |-> n, isgood |-> b, value |-> v]
  BY SMT, <1>1
<1> QED  BY SMT, <1>1, <1>2 DEF Fitting

LEMMA EntrySet ==
  ASSUME NEW R, NEW n, NEW e, n \in DOMAIN R => SameEntry(R[n], e)
  PROVE  SameEntries(R, [R EXCEPT ![n] = e])
<1>1. ASSUME NEW m \in DOMAIN R PROVE SameEntry(R[m], R[m])
  BY DEF SameEntry
<1>2. PICK S : S = [R EXCEPT ![n] = e]
  OBVIOUS
<1>3. DOMAIN S = DOMAIN R /\ \A m \in DOMAIN R : S[m] = IF m = n THEN e ELSE R[m]
  BY SMT, <1>2
<1> QED  BY Zenon, <1>1, <1>2, <1>3 DEF SameEntries

LEMMA ErrorsSet ==
  ASSUME NEW R, NEW n, NEW w
  PROVE  SameEntries(R, [R EXCEPT ![n].var_errors = w])
<1>1. PICK e : e = [R[n] EXCEPT !.var_errors = w]
  OBVIOUS
<1>2. /\ e.kind = R[n].kind /\ e.rw = R[n].rw /\ e.prop = R[n].prop /\ e.ptr = R[n].ptr
      /\ e.path = R[n].path /\ e.Number = R[n].Number
  BY SMT, <1>1
<1>3. SameEntry(R[n], e)
  BY Zenon, <1>2 DEF SameEntry
<1>4. [R EXCEPT ![n].var_errors = w] = [R EXCEPT ![n] = e]
  BY Zenon, <1>1
<1>5. SameEntries(R, [R EXCEPT ![n] = e])
  BY <1>3, EntrySet
<1> QED  BY <1>4, <1>5

LEMMA ValueSet ==
  ASSUME NEW R, NEW n, NEW w
  PROVE  SameEntries(R, [R EXCEPT ![n].Number.value = w])
<1>1. PICK x : x = [R[n].Number EXCEPT !.value = w]
  OBVIOUS
<1>2. PICK e : e = [R[n] EXCEPT !.Number = x]
  OBVIOUS
<1>3. /\ e.kind = R[n].kind /\ e.rw = R[n].rw /\ e.prop = R[n].prop /\ e.ptr = R[n].ptr
      /\ e.path = R[n].path /\ (e.Number = R[n].Number \/ e.Number = x)
  BY SMT, <1>2
<1>4. Fitting(R[n].Number) => Fitting(x) /\ x.ua = R[n].Number.ua
  BY <1>1, FittingValue
<1>5. SameEntry(R[n], e)
  BY Zenon, <1>3, <1>4 DEF SameEntry
<1>6. [R EXCEPT ![n].Number.value = w] = [R EXCEPT ![n] = e]
  BY Zenon, <1>1, <1>2
<1>7. SameEntries(R, [R EXCEPT ![n] = e])
  BY <1>5, EntrySet
<1> QED  BY <1>6, <1>7

LEMMA SameEntriesTwice ==
  ASSUME NEW R, NEW S, NEW T, SameEntries(R, S), SameEntries(S, T)
  PROVE  SameEntries(R, T)
BY Zenon DEF SameEntries, SameEntry

LEMMA RunKeepsEntries ==
  ASSUME Poller \/ Refresher \/ Start \/ Stop
  PROVE  SameEntries(REGmap, REGmap')
<1>0. SameEntries(REGmap, REGmap)
  BY Zenon DEF SameEntries, SameEntry
<1>1. CASE UNCHANGED REGmap
  BY <1>0, <1>1
<1>2. CASE ReadWord
  BY Zenon, <1>2, ErrorsSet DEF ReadWord
<1>3. CASE ReadEnds
  <2>1. PICK w : REGmap' = [REGmap EXCEPT ![task.n].Number.value = w]
    BY Zenon, <1>3 DEF ReadEnds
  <2> QED  BY <2>1, ValueSet
<1>4. CASE WriteDone
  <2>1. PICK w : REGmap' = [REGmap EXCEPT ![task.n].Number.value = w]
    BY Zenon, <1>4 DEF WriteDone
  <2> QED  BY <2>1, ValueSet
<1>5. ASSUME NEW n, NEW v, TakeOpc(n, v)
      PROVE  SameEntries(REGmap, REGmap')
  <2>1. PICK S : S = [REGmap EXCEPT ![n].Number.value = v]
    OBVIOUS
  <2>2. PICK w : REGmap' = [S EXCEPT ![n].var_errors = w]
    BY Zenon, <1>5, <2>1 DEF TakeOpc
  <2>3. SameEntries(REGmap, S) /\ SameEntries(S, REGmap')
    BY Zenon, <2>1, <2>2, ValueSet, ErrorsSet
  <2> QED  BY <2>3, SameEntriesTwice
<1>6. CASE Poller \/ Start \/ Stop \/ WriteWord
  <2>1. UNCHANGED REGmap
    BY Zenon, <1>6 DEF Poller, PollAnswered, PollFails, CopyReg, CopyEnds, WriteReg,
       WriteEnds, WriteWord, Start, Stop, loaded, config
  <2> QED  BY <1>1, <2>1
<1>7. ASSUME NEW n, ReadBegins(n) \/ \E v : WriteBegins(n, v)
      PROVE  SameEntries(REGmap, REGmap')
  <2>1. UNCHANGED REGmap
    BY Zenon, <1>7 DEF ReadBegins, WriteBegins, config
  <2> QED  BY <1>1, <2>1
<1> QED
  BY Zenon, <1>2, <1>3, <1>4, <1>5, <1>6, <1>7 DEF Refresher

-----------------------------------------------------------------------------
(* Types.                                                                  *)

\* Where loading and taking down are, and what there is then.
Phases ==
  /\ pc = "out" => PLCvec = <<>>
  /\ pc \in {"out", "plc", "noregs", "noopc"} => DOMAIN REGmap = {}

Numbers == \A n \in DOMAIN REGmap : Fitting(REGmap[n].Number)

Scalars ==
  /\ file \in File
  /\ pc \in {"out", "plc", "scada", "opc", "ready", "run", "stopped", "noregs",
             "noopc", "failed", "crashed"}
  /\ at \in Nat \ {0} /\ nth \in Nat \ {0} /\ capacity \in Nat /\ buffer \in Nat

Vector == IsSeq(PLCvec) /\ Len(PLCvec) <= capacity

Shape == Scalars /\ Vector /\ Numbers /\ Phases

LEMMA ModbusFits ==
  ASSUME NEW p
  PROVE  Fitting(ModbusEntry(p).Number)
<1> DEFINE x == SetType(NewNumber(Zero), "UINT16")
           w == [x.value EXCEPT ![0] = Reg(p).rvalue]
<1>1. \A v : Fitting(NewNumber(v))
  BY SMT, Widths DEF Fitting, NewNumber
<1>2. Fitting(x)
  BY Zenon, <1>1, NumbersFit
<1>3. Fitting([x EXCEPT !.value = w])
  BY <1>2, FittingValue
<1>4. Fitting(SetNumber(NewNumber(Zero), [x EXCEPT !.value = w]))
  BY Zenon, <1>1, <1>3, NumbersFit
<1>5. PICK y : y = SetNumber(NewNumber(Zero), [x EXCEPT !.value = w])
  OBVIOUS
<1>6. SetNumber(NewNumber(Zero), [x EXCEPT !.value[0] = Reg(p).rvalue]) = y
  BY Zenon, <1>5
<1>7. ModbusEntry(p).Number = y
  BY SMT, <1>6 DEF ModbusEntry
<1> QED  BY <1>4, <1>5, <1>7

LEMMA ScadaFits ==
  ASSUME Numbers, NEW c, NEW v
  PROVE  Fitting(ScadaEntry(c, v).Number)
<1> DEFINE name == FullName(SetName(c), v.name)
           old == IF name \in DOMAIN REGmap THEN REGmap[name].Number ELSE NewNumber(Zero)
<1>1. \A w : Fitting(NewNumber(w))
  BY SMT, Widths DEF Fitting, NewNumber
<1>2. Fitting(old)
  BY Zenon, <1>1 DEF Numbers
<1>3. PICK y : y = SetNumber(old, Assign(SetType(NewNumber(Zero), TypeOf(v).rtype), Local))
  OBVIOUS
<1>4. Fitting(SetType(NewNumber(Zero), TypeOf(v).rtype))
  BY Zenon, <1>1, NumbersFit
<1>5. Fitting(Assign(SetType(NewNumber(Zero), TypeOf(v).rtype), Local))
  BY Zenon, <1>1, <1>4, NumbersFit
<1>6. Fitting(y)
  BY Zenon, <1>2, <1>3, <1>5, NumbersFit
<1>7. ScadaEntry(c, v).Number = y
  BY SMT, <1>3 DEF ScadaEntry
<1> QED  BY <1>6, <1>7

\* What the parser makes of the file at hand.
LEMMA FileParts ==
  ASSUME NEW f \in File
  PROVE  /\ f.all \in BOOLEAN /\ IsSeq(f.list) /\ IsSeq(f.plc) /\ IsSeq(f.scada)
         /\ Len(f.list) \in Nat /\ Len(f.plc) \in Nat /\ Len(f.scada) \in Nat
         /\ DOMAIN f.list = 1 .. Len(f.list) /\ DOMAIN f.plc = 1 .. Len(f.plc)
         /\ DOMAIN f.scada = 1 .. Len(f.scada)
BY Zenon, FilesAssumption, SeqParts

LEMMA ShapeInit == RunInit => Shape
<1> SUFFICES ASSUME RunInit PROVE Shape
  OBVIOUS
<1>1. Scalars
  BY SMT DEF RunInit, Init, Scalars
<1>2. Vector
  BY SMT, EmptyIsSeq DEF RunInit, Init, Vector
<1>3. DOMAIN REGmap = {} /\ PLCvec = <<>>
  BY SMT DEF RunInit, Init, Empty
<1> QED  BY <1>1, <1>2, <1>3 DEF Shape, Numbers, Phases

LEMMA ConfigShape == Shape /\ ConfigStep => Shape'
<1> SUFFICES ASSUME Shape, ConfigStep PROVE Shape'
  OBVIOUS
<1> USE DEF Shape
<1>1. ASSUME NEW f \in File, ReadFile(f) PROVE Shape'
  <2>1. Len(PLCvec) \in Nat /\ Len(f.plc) \in Nat /\ Len(f.list) \in Nat
    BY SeqParts, FileParts DEF Vector
  <2>2. capacity' \in Nat /\ capacity' >= capacity
    <3>1. CASE f.fault = "early"
      BY SMT, <1>1, <3>1 DEF ReadFile, Scalars
    <3>2. CASE f.fault # "early"
      <4>1. PICK n \in Nat : Reserve(n)
        BY Zenon, <1>1, <2>1, <3>2 DEF ReadFile
      <4> QED  BY SMT, <2>1, <4>1 DEF Reserve, Scalars
    <3> QED  BY <3>1, <3>2
  <2>3. UNCHANGED <<PLCvec, buffer, REGmap>> /\ pc = "out" /\ pc' \in {"failed", "plc"}
        /\ file' = f /\ at' = 1 /\ nth' = 1
    BY SMT, <1>1 DEF ReadFile
  <2>4. Scalars'
    BY SMT, <2>2, <2>3 DEF Scalars
  <2>5. Vector'
    BY SMT, <2>1, <2>2, <2>3 DEF Vector, Scalars
  <2> QED  BY SMT, <2>3, <2>4, <2>5 DEF Phases, Numbers
<1>2. CASE SkipPlc
  BY SMT, <1>2 DEF SkipPlc, Scalars, Vector, Phases, Numbers
<1>3. CASE AddPlc
  <2> DEFINE size == Len(PLCvec)
             full == size >= capacity
  <2>1. size \in Nat /\ capacity \in Nat
    BY SeqParts DEF Vector, Scalars
  <2>2. buffer' = (IF full THEN buffer + 1 ELSE buffer)
        /\ capacity' = IF full THEN Grown(size) ELSE capacity
    BY Zenon, <1>3 DEF AddPlc
  <2>3. buffer' \in Nat /\ capacity' \in Nat /\ size + 1 <= capacity'
    BY SMT, <2>1, <2>2 DEF Grown, Scalars, Vector
  <2>4. PICK V, D : V = [k \in DOMAIN PLCvec |-> V[k]] /\ PLCvec' = Append(V, D)
    <3>1. PICK V, D : /\ V = [k \in DOMAIN PLCvec |-> IF full THEN Moved(PLCvec[k])
                                                              ELSE PLCvec[k]]
                      /\ PLCvec' = Append(V, D)
      BY Zenon, <1>3 DEF AddPlc
    <3>2. V = [k \in DOMAIN PLCvec |-> V[k]]
      BY SMT, <3>1
    <3> QED  BY <3>1, <3>2
  <2>5. IsSeq(V) /\ Len(V) = size
    BY Zenon, <2>4, Remade DEF Vector
  <2>6. IsSeq(PLCvec') /\ Len(PLCvec') = size + 1
    BY Zenon, <2>4, <2>5, Appended
  <2>7. Vector'
    BY <2>3, <2>6 DEF Vector
  <2>8. UNCHANGED <<file, pc, nth, REGmap>> /\ pc = "plc" /\ at' = at + 1
    BY Zenon, <1>3 DEF AddPlc
  <2>9. Scalars'
    BY SMT, <2>3, <2>8 DEF Scalars
  <2> QED  BY SMT, <2>7, <2>8, <2>9 DEF Phases, Numbers
<1>4. CASE CreateEntries
  <2> DEFINE N == {NameOf(p) : p \in Registers}
             last(n) == CHOOSE p \in Registers :
                          /\ NameOf(p) = n
                          /\ \A q \in Registers : NameOf(q) = n => ~Later(q, p)
  <2>1. REGmap' = [n \in N |-> ModbusEntry(last(n))]
    BY Zenon, <1>4 DEF CreateEntries
  <2>2. Numbers'
    <3> HIDE DEF N, last
    <3>1. DOMAIN REGmap' = N /\ \A n \in N : REGmap'[n] = ModbusEntry(last(n))
      BY SMT, <2>1
    <3> QED  BY Zenon, <3>1, ModbusFits DEF Numbers
  <2> QED  BY SMT, <1>4, <2>2 DEF CreateEntries, Scalars, Vector, Phases
<1>5. CASE NextSet \/ SkipVar
  BY SMT, <1>5 DEF NextSet, SkipVar, InSet, Scalars, Vector, Phases, Numbers
<1>6. CASE AddVar
  <2>1. UNCHANGED <<file, at, PLCvec, capacity, buffer>> /\ pc = "scada"
        /\ pc' \in {"scada", "crashed"} /\ nth' \in {nth, nth + 1}
    BY SMT, <1>6 DEF AddVar, InSet
  <2>2. Numbers'
    <3>1. CASE UNCHANGED REGmap
      BY <3>1 DEF Numbers
    <3>2. ASSUME NEW n, REGmap' = [m \in DOMAIN REGmap \cup {n} |->
                                     IF m = n THEN ScadaEntry(file.scada[at], Here)
                                              ELSE REGmap[m]]
          PROVE  Numbers'
      BY SMT, <3>2, ScadaFits DEF Numbers
    <3> QED  BY Zenon, <1>6, <3>1, <3>2 DEF AddVar
  <2>3. Scalars'
    BY SMT, <2>1 DEF Scalars
  <2> QED  BY SMT, <2>1, <2>2, <2>3 DEF Vector, Phases
<1>7. CASE ScadaDone \/ OpcRegsInit
  BY SMT, <1>7 DEF ScadaDone, OpcRegsInit, Scalars, Vector, Phases, Numbers
<1>8. CASE RegsDeinit
  <2>1. DOMAIN REGmap' = {}
    BY SMT, <1>8 DEF RegsDeinit, Empty
  <2> QED  BY SMT, <1>8, <2>1 DEF RegsDeinit, Scalars, Vector, Phases, Numbers
<1>9. CASE OpcDeinit
  BY SMT, <1>9 DEF OpcDeinit, Scalars, Vector, Phases, Numbers
<1>10. CASE MbDeinit
  BY SMT, <1>10, EmptyIsSeq DEF MbDeinit, Scalars, Vector, Phases, Numbers
<1> QED
  BY Zenon, <1>1, <1>2, <1>3, <1>4, <1>5, <1>6, <1>7, <1>8, <1>9, <1>10 DEF ConfigStep

LEMMA ShapeStep == Shape /\ [Next]_vars => Shape'
<1> SUFFICES ASSUME Shape, [Next]_vars PROVE Shape'
  OBVIOUS
<1>1. CASE ConfigStep
  BY <1>1, ConfigShape
<1>2. CASE Poller \/ Refresher \/ Start \/ Stop
  <2>1. SameVec(PLCvec, PLCvec') /\ buffer' = buffer /\ capacity' = capacity
    BY <1>2, RunKeepsVec DEF Shape, Vector
  <2>2. SameEntries(REGmap, REGmap')
    BY <1>2, RunKeepsEntries
  <2>3. /\ file' = file /\ at' = at /\ nth' = nth
        /\ \/ pc' = pc
           \/ pc = "ready" /\ pc' = "run"
           \/ pc = "run" /\ pc' = "stopped"
    BY Zenon, <1>2 DEF Start, Stop, Poller, PollAnswered, PollFails, CopyReg, CopyEnds,
       WriteReg, WriteEnds, Refresher, ReadBegins, WriteBegins, ReadWord, ReadEnds,
       WriteWord, WriteDone, TakeOpc, loaded, config
  <2>4. Scalars'
    BY SMT, <2>1, <2>3 DEF Shape, Scalars
  <2>5. Vector'
    BY SMT, <2>1 DEF Shape, Vector, SameVec
  <2>6. Numbers'
    BY Zenon, <2>2 DEF Shape, Numbers, SameEntries, SameEntry
  <2>7. Phases'
    <3>1. DOMAIN REGmap' = DOMAIN REGmap
      BY <2>2 DEF SameEntries
    <3>2. PLCvec = <<>> => PLCvec' = <<>>
      BY SMT, <2>1, EmptyIsSeq DEF SameVec, IsSeq
    <3> QED  BY SMT, <2>3, <3>1, <3>2 DEF Shape, Phases
  <2> QED  BY <2>4, <2>5, <2>6, <2>7 DEF Shape
<1>3. CASE UNCHANGED vars
  BY Zenon, <1>3 DEF vars, config, Shape, Scalars, Vector, Numbers, Phases
<1> QED  BY <1>1, <1>2, <1>3 DEF Next

\* The types of the loader and of the register layer: the vector of PLCs never
\* has more objects than room, and the number of every entry is one, two or
\* four words wide (cfg_init_plcset, the constructors of Reg_c, Number_c).
THEOREM TypeCorrect == Spec => []TypeOK
<1>1. RunInit => Shape
  BY ShapeInit
<1>2. Shape /\ [Next]_vars => Shape'
  BY ShapeStep
<1>3. Shape => TypeOK
  BY DEF Shape, Scalars, Vector, Numbers, Fitting, TypeOK
<1> QED  BY <1>1, <1>2, <1>3, PTL DEF Spec

=============================================================================
