---------------------------- MODULE MCRegisters ----------------------------
(* Registers for TLC: configuration files that are small, and each made for *)
(* a case of its own.                                                       *)
EXTENDS Registers

R(a, n, rw) == [addr |-> a, name |-> n, rw |-> rw, folder |-> ""]
Plc(name, regs) ==
  [name |-> name, folder |-> "PLC", complete |-> TRUE, regs |-> regs]
V(n, rw, t, source) ==
  [name |-> n, rw |-> rw, type |-> t, folder |-> "Temp", source |-> source]
Set(name, vs) ==
  [name |-> name, folder |-> "SCADA", complete |-> TRUE, vars |-> vs]
F(list, plc, sets, watched) ==
  [fault |-> "none", all |-> FALSE, list |-> list, plc |-> plc, scada |-> sets,
   watched |-> watched, device |-> {"p", "q"}]

Ax == <<"A", "x">>
Pair(rw) == <<R(1, "x", rw), R(2, "y", rw)>>
Quad     == <<R(1, "x", FALSE), R(2, "y", FALSE), R(3, "z", FALSE), R(4, "u", FALSE)>>

\* One PLC and one variable that refers to its first register.
Command2 == {F(<<"A">>, <<Plc("A", Pair(TRUE))>>,
               <<Set("-", <<V("w", TRUE, t, Ax)>>)>>, {<<"", "w">>})
               : t \in {"u32", "i32bs", "float_dcba", "fls", "f100", "i"}}
Reading4 == {[F(<<"A">>, <<Plc("A", Quad)>>,
               <<Set("S", <<V("w", TRUE, t, Ax)>>)>>, {<<"S", "w">>})
                EXCEPT !.device = {"p"}] : t \in {"u64", "dbs", "i64le", "u64ls"}}

\* Two PLCs, of which one has adjacent registers, one that is not listed and
\* a record that is not complete; all the ways a variable can be refused.
Several ==
  [F(<<"A", "B">>,
    <<Plc("A", Pair(FALSE)), Plc("C", Pair(FALSE)),
      [Plc("D", <<>>) EXCEPT !.complete = FALSE],
      Plc("B", <<R(5, "millis", FALSE), R(7, "status", FALSE), R(6, "x", TRUE)>>)>>,
    <<Set("S", <<V("far", FALSE, "u", <<"C", "x">>), V("odd", FALSE, "zz", Ax),
                 V("own", TRUE, "float", NoSource), V("two", FALSE, "f10", Ax),
                 V("via", FALSE, "u", <<"S", "two">>),
                 V("none", TRUE, "hex", <<"S", "own">>),
                 V("star", FALSE, "*", Ax)>>),
      [Set("T", <<>>) EXCEPT !.complete = FALSE]>>,
    {<<"S", "two">>}) EXCEPT !.device = {"p"}]

Everyone == [Several EXCEPT !.all = TRUE, !.list = <<"all">>, !.watched = {}]

\* One PLC with its milliseconds and variables of their own; and another file
\* that gives one of them another type.
Own(name, t) == [F(<<"B">>, <<Plc("B", <<R(5, name, FALSE)>>)>>,
                   <<Set("S", <<V("own", TRUE, t, NoSource), V("none", TRUE, "hex", NoSource)>>)>>,
                   {<<"S", "own">>, <<"S", "none">>, <<"B", name>>})
                   EXCEPT !.device = {"p"}]
Page    == Own("millis", "float")
Retyped == Own("x", "double")

\* A variable asks for four words where two are configured.
Gap == F(<<"A">>, <<Plc("A", Pair(TRUE))>>, <<Set("S", <<V("w", TRUE, "u64", Ax)>>)>>, {})

\* Three records with one listed name: the vector is reserved for two.
Triplets == F(<<"A">>, <<Plc("A", Pair(TRUE)), Plc("A", Pair(TRUE)), Plc("A", Pair(TRUE))>>,
              <<>>, {})

\* After another file nothing of Several is read.
Again == [Several EXCEPT !.watched = {}]
Early == [Several EXCEPT !.fault = "early"]
Late  == [Several EXCEPT !.fault = "late"]

Files == Command2 \cup Reading4 \cup 
         {Several, Again, Everyone, Gap, Triplets, Page, Retyped, Early, Late}
Reloads == {Again, Triplets, Retyped}
=============================================================================
