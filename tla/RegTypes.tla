------------------------------ MODULE RegTypes ------------------------------
(***************************************************************************)
(* The register types (libs/reg/reg_datatype.h, the table of reg_init.cpp) *)
(* and what they do to values: the word and byte orders of                 *)
(* reg_byteorder.cpp, the conversions of get_plc_value, and Number_c.      *)
(*                                                                         *)
(* A 16-bit word is known by where it came from and by whether its two     *)
(* bytes have been exchanged; a value (union numeric_u) is its four words  *)
(* in memory, the lowest first, as mb64u shows them on the little-endian   *)
(* machines the program runs on.                                           *)
(***************************************************************************)
EXTENDS Naturals, Sequences

Place == 0 .. 3

Word(kind, at) == [kind |-> kind, at |-> at, of |-> <<>>, flip |-> FALSE]

Zero   == Word("zero", 0)
NotYet == Word("777", 0)     \* what init_regs stores before any reading
Local  == Word("888", 0)     \* what a SCADA variable starts with
BadReg == Word("bad", 0)     \* bad_value.ui16, for a word in error

Blank == [i \in Place |-> Zero]

\* bswap_16
Swapped(w) == IF w = Zero THEN w ELSE [w EXCEPT !.flip = ~@]

\* The n lowest words of v, with those of old above them.
Low(v, n, old) == [i \in Place |-> IF i < n THEN v[i] ELSE old[i]]

\* What arithmetic makes of the word w: a number of n words, known only as
\* the result of that operation.
Computed(kind, n, w) ==
  [i \in Place |-> IF i < n THEN [kind |-> kind, at |-> i, of |-> <<w>>,
                                  flip |-> FALSE]
                            ELSE Zero]

\* bad_value, of a type that takes n words.
Bad(ua, n) == [i \in Place |-> IF i < n THEN Word("bad " \o ua, i) ELSE Zero]

-----------------------------------------------------------------------------
(* The table of types: names, OPC UA type, words, order.                   *)

Row(names, ua, size, order) ==
  [names |-> names, rtype |-> ua, rsize |-> size, rbyteorder |-> order]

Wide(ua, size, be, bs, le, ls) ==
  {Row(be, ua, size, "BE"), Row(bs, ua, size, "BS"),
   Row(le, ua, size, "LE"), Row(ls, ua, size, "LS")}

Rows ==
  {Row({"*"}, "REF", 0, "REF"), Row({"-"}, "NOTHING", 0, "NOTHING"),
   Row({"u", "u16"}, "UINT16", 1, "SNGL"),
   Row({"i", "i16"}, "INT16", 1, "SNGL"),
   Row({"f10"}, "F10", 1, "F10"), Row({"f", "f100"}, "F100", 1, "F100"),
   Row({"hex"}, "HEX", 1, "HEX"), Row({"bin"}, "BINARY", 1, "BINARY"),
   Row({"2nd", "2"}, "2ND", 0, "2ND"), Row({"3rd", "3"}, "3RD", 0, "3RD"),
   Row({"4th", "4"}, "4TH", 0, "4TH")}
  \cup Wide("UINT32", 2, {"u32", "u32be"}, {"u32bs"}, {"u32le"}, {"u32ls"})
  \cup Wide("INT32", 2, {"i32", "i32be"}, {"i32bs"}, {"i32le"}, {"i32ls"})
  \cup Wide("UINT64", 4, {"u64", "u64be"}, {"u64bs"}, {"u64le"}, {"u64ls"})
  \cup Wide("INT64", 4, {"i64", "i64be"}, {"i64bs"}, {"i64le"}, {"i64ls"})
  \cup Wide("FLOAT", 2,
            {"float", "fhh", "fbe", "float_be", "float_abcd", "f_abcd"},
            {"flh", "fbs", "float_bs", "float_badc", "f_badc"},
            {"fll", "fle", "float_le", "float_dcba", "f_dcba"},
            {"fhl", "fls", "float_ls", "float_cdab", "f_cdab"})
  \cup Wide("DOUBLE", 4, {"double", "dhh", "dbe", "double_be"},
            {"dlh", "dbs", "double_bs"}, {"dll", "dle", "double_le"},
            {"dhl", "dls", "double_ls"})

TypeNames == UNION {r.names : r \in Rows}

\* regprop_map; the names are looked up in lower case.
regprop_map == [s \in TypeNames |-> CHOOSE r \in Rows : s \in r.names]

check_type(s) == s \in TypeNames

-----------------------------------------------------------------------------
(* Words to values and back.                                               *)

\* The orders whose words are turned round, and whose bytes are exchanged.
Turned  == {"LE", "LS"}
SwappedInWordsMutant == {"LE", "BS"}
SwappedInWords == {"LS", "BS"}

\* pull_plc_value32, pull_plc_value64: the registers are stored from the last
\* to the first, be32toh or be64toh turns all the bytes round, and bswap_16
\* those of each word.  What lies above the n words is left from before.
Pull(old, reg, n, order) ==
  LET stored(i) == reg[n - 1 - i]
      turned(i) == IF order \in Turned THEN Swapped(stored(n - 1 - i)) ELSE stored(i)
      swapped(i) == IF order \in SwappedInWords THEN Swapped(turned(i)) ELSE turned(i)
  IN [i \in Place |-> IF i < n THEN swapped(i) ELSE old[i]]

\* get_plc_value: what becomes of the words read, or of an error seen before.
Converted(prop, old, reg, hasErrors) ==
  LET n  == prop.rsize
      ua == prop.rtype
  IN CASE n = 1 /\ ua \in {"UINT16", "INT16"} ->
            IF hasErrors THEN Bad(ua, 1) ELSE [Blank EXCEPT ![0] = reg[0]]
       [] n = 1 /\ prop.rbyteorder \in {"F10", "F100"} ->
            IF hasErrors THEN Bad("FLOAT", 2)
                         ELSE Computed(prop.rbyteorder, 2, reg[0])
       [] n = 1 /\ prop.rbyteorder \in {"HEX", "BINARY"} -> Blank
       [] n \in {2, 4} ->
            LET v == Pull(old, reg, n, prop.rbyteorder)
            IN IF hasErrors THEN Low(Bad(ua, n), n, v) ELSE v
       [] OTHER -> [i \in Place |-> Word("1234567890", i)]

\* Which word of the value register i of n holds, and how, in the words of
\* reg_datatype.h: "High byte first, high word first" and so on.
HighWordFirst(order) == order \in {"BE", "BS"}
HighByteFirst(order) == order \in {"BE", "LS"}

Layout(order, v, n) ==
  [i \in 0 .. n - 1 |->
     LET w == v[IF HighWordFirst(order) THEN n - 1 - i ELSE i]
     IN IF HighByteFirst(order) THEN w ELSE Swapped(w)]

-----------------------------------------------------------------------------
(* Number_c, as far as registers use it.                                   *)

\* type_attr, in 16-bit words.  The two scaled types are FLOAT from there on.
Fits == [INT16 |-> 1, UINT16 |-> 1, INT32 |-> 2, UINT32 |-> 2, FLOAT |-> 2,
         F10 |-> 2, F100 |-> 2, INT64 |-> 4, UINT64 |-> 4, DOUBLE |-> 4]

type_attr ==
  [g \in DOMAIN Fits |->
     [ua |-> IF g \in {"F10", "F100"} THEN "FLOAT" ELSE g, words |-> Fits[g]]]

\* _get_type_ptr finds the type.
Known(g) == g \in DOMAIN type_attr

\* The constructor from a word.
NewNumber(w) ==
  [ua |-> "UINT16", words |-> 1, isgood |-> TRUE, value |-> [Blank EXCEPT ![0] = w]]

\* set_type, through _set_attributes and _init: a type that is not known
\* leaves the width as it was and the number bad.
SetType(x, g) ==
  IF Known(g)
  THEN [ua |-> type_attr[g].ua, words |-> type_attr[g].words,
        isgood |-> TRUE, value |-> Blank]
  ELSE [x EXCEPT !.ua = "none", !.isgood = FALSE, !.value = Blank]

\* set and operator= from another number: no more bytes than the type has.
SetNumber(x, y) ==
  IF Known(y.ua)
  THEN [y EXCEPT !.words = type_attr[y.ua].words,
                 !.value = Low(y.value, type_attr[y.ua].words, Blank)]
  ELSE SetType(x, y.ua)

\* _set_value, from a word: it becomes a number of the type there is.
SetValue(x, w) ==
  LET v == IF x.ua \in {"FLOAT", "DOUBLE"} THEN Computed("float", x.words, w)
                                           ELSE [Blank EXCEPT ![0] = w]
  IN [x EXCEPT !.value = Low(v, x.words, @)]

\* operator= from a word: the type stays when there is one.
Assign(x, w) == IF x.words = 0 \/ x.ua = "none" THEN NewNumber(w) ELSE SetValue(x, w)

=============================================================================
