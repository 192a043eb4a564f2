------------------------------ MODULE MCSetVar ------------------------------
(***************************************************************************)
(* SetVar for TLC: every type of variable in every shape, and values of    *)
(* every type.                                                             *)
(***************************************************************************)
EXTENDS SetVar

One(t, v, stamp) == [type |-> t, vec |-> FALSE, pv |-> FALSE, val |-> <<v>>, stamp |-> stamp]
Vec(t, vs) == [type |-> t, vec |-> TRUE, pv |-> FALSE, val |-> vs, stamp |-> 1]
PV(value) == [value EXCEPT !.pv = TRUE]

MCSources == <<
  void, [void EXCEPT !.stamp = 1],
  One("BYTE", 3, 0), Vec("BYTE", <<2, 0>>),
  One("BOOL", 1, 0), PV(One("BOOL", 0, 1)), Vec("BOOL", <<1, 0, 1>>),
  One("INT", 3, 0), One("INT", -4, 0), PV(One("INT", 3, 1)), Vec("INT", <<-1, 2>>), PV(Vec("INT", <<>>)),
  One("UINT", 7, 0), One("UINT", 2, 1), Vec("UINT", <<0, 6>>),
  One("SINGLE", 3, 1), Vec("SINGLE", <<-1, 4>>),
  One("DOUBLE", 1, 0), One("DOUBLE", -3, 0), PV(One("DOUBLE", 1, 1)), Vec("DOUBLE", <<6>>),
  One("TIME", <<5, 1>>, 0), One("TIME", <<0, 1>>, 0), Vec("TIME", <<<<1, 0>>, <<7, 1>>>>),
  One("TIME_SPAN", <<1, 1>>, 0), One("TIME_SPAN", <<0, -1>>, 0), One("TIME_SPAN", <<-2, -1>>, 1),
  Vec("TIME_SPAN", <<<<0, 1>>, <<-1, 0>>>>),
  One("STRING", <<>>, 0), One("STRING", <<"bool", TRUE>>, 0), One("STRING", <<"word">>, 1),
  PV(One("STRING", <<"word">>, 0)), PV(One("STRING", <<"word">>, 1)),
  One("STRING", <<"int", -2>>, 0), One("STRING", <<"dec", 3>>, 0), One("STRING", <<"dec", -1>>, 0),
  One("STRING", <<"clock", 4, 1>>, 0),
  Vec("STRING", <<<<"int", 1>>, <<>>>>), Vec("STRING", <<<<"dec", -3>>, <<"clock", 2, 0>>>>)>>

Variables(types, shapes, pv, accessor) ==
  {[type |-> t, shape |-> s, pv |-> pv, accessor |-> accessor] : t \in types, s \in shapes}

MCDecls == UNION {
  Variables(Types, {"scalar", "dynvec"}, FALSE, FALSE),
  Variables(Types \ {"STRING"}, {"static"}, FALSE, FALSE),
  Variables({"INT", "STRING"}, {"scalar", "dynvec"}, TRUE, FALSE),
  Variables({"DOUBLE"}, {"static"}, TRUE, FALSE),
  Variables({"UINT", "STRING"}, {"scalar"}, FALSE, TRUE),
  Variables({"DOUBLE"}, {"dynvec", "static"}, TRUE, TRUE),
  Variables({"ANY"}, {"scalar"}, FALSE, FALSE),
  Variables({"ANY"}, {"scalar"}, FALSE, TRUE)}
=============================================================================
