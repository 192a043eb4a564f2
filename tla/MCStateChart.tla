---------------------------- MODULE MCStateChart ----------------------------
(***************************************************************************)
(* StateChart for TLC: a chart of four steps, two of which run the same    *)
(* sub-chart of two.                                                       *)
(***************************************************************************)
EXTENDS StateChart, TLC

CONSTANTS main, sub, mINIT, A, B, mEND, sINIT, sEND, tIA, tAB, tBE, tBA, tB0, uIE

MCCharts == {main, sub}
MCSteps == {mINIT, A, B, mEND, sINIT, sEND}
MCChartOf == [s \in MCSteps |-> IF s \in {sINIT, sEND} THEN sub ELSE main]
MCInitStep == main :> mINIT @@ sub :> sINIT
MCEndStep == main :> mEND @@ sub :> sEND
MCTransitions == {tIA, tAB, tBE, tBA, tB0, uIE}
MCOutgoing ==
  mINIT :> <<tIA>> @@ A :> <<tAB>> @@ B :> <<tBE, tBA, tB0>> @@ mEND :> <<>>
    @@ sINIT :> <<uIE>> @@ sEND :> <<>>
MCTarget ==
  tIA :> A @@ tAB :> B @@ tBE :> mEND @@ tBA :> A @@ tB0 :> NoStep
    @@ uIE :> sEND
MCExecutes == [s \in MCSteps |-> [q \in {"entry", "do", "exit"} |->
                 IF s \in {A, B} /\ q = "do" THEN sub ELSE NoChart]]
MCInitSteps == {A}
MCEndSteps == {mINIT}

(* What the theorems about charts ask of the constants.                    *)
ASSUME OnlyDo /\ SubChartsStart
=============================================================================
