SPECIFICATION Spec
CONSTANTS
  p1 = p1
  p2 = p2
  c1 = c1
  c2 = c2
  Pids <- MCPids
  Commands <- MCCommands
  Asks <- OneOperator
  Args = {"own"}
  NoArgs = "none"
  Nobody = Nobody
SYMMETRY Alike
INVARIANTS OneWriter PidFileIsTrue BinaryIsWhole
