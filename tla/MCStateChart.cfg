\* Two charts; the steps and transitions of module MCStateChart.
CONSTANTS
  main = main  sub = sub  NoStep = NoStep  NoChart = NoChart
  mINIT = mINIT  A = A  B = B  mEND = mEND  sINIT = sINIT  sEND = sEND
  tIA = tIA  tAB = tAB  tBE = tBE  tBA = tBA  tB0 = tB0  uIE = uIE
  Charts <- MCCharts
  MainChart = main
  Steps <- MCSteps
  ChartOf <- MCChartOf
  InitStep <- MCInitStep
  EndStep <- MCEndStep
  Transitions <- MCTransitions
  Outgoing <- MCOutgoing
  Target <- MCTarget
  Executes <- MCExecutes
  InitSteps <- MCInitSteps
  EndSteps <- MCEndSteps
SPECIFICATION ChartSpec
INVARIANTS
  StepsSound
PROPERTIES
  EntryExitPaired
  ImplementsMachine
