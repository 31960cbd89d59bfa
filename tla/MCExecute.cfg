SPECIFICATION Spec
CONSTANTS
  Width = 4
  HiLoInputs = {0, 1, 127, 128, 200, 255}
INVARIANTS TypeOK DivisionLoop ArithmeticResult DivisionResult
