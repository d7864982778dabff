SPECIFICATION ClientSpec
CONSTANTS
  a = a  b = b  n = n  p = p  hello = hello
  Null = Null
  Old <- MCOld
  NewSession <- MCFresh
  TextOf <- MCSameText
  MaxMessages = 2
  MaxClientEvents = 4
SYMMETRY MCSymmetry
CHECK_DEADLOCK FALSE
INVARIANTS NeverSilentlyLostUnlessRaced
