SPECIFICATION Spec
CONSTANTS
  t1 = t1  t2 = t2  t3 = t3  t4 = t4  t5 = t5  t6 = t6  t7 = t7
  p1 = p1  p2 = p2  p9 = p9  b1 = b1  b9 = b9  k1 = k1  k2 = k2
  Calls = {t1, t2, t3, t4, t5, t6, t7}
  Products = {p1, p2}
  Buyers = {b1}
  Keys = {k1, k2}
  NoKey = NoKey
  None = None
  Call <- MCCall
  Price <- MCPrice
  Stock0 <- MCStock
  Balance0 <- MCBalance
SYMMETRY Symmetric
INVARIANTS TypeOK Conserved OneOrderPerKey AnswersTrue SomeoneGoesOn
PROPERTIES ChecksOutAtomically
CHECK_DEADLOCK FALSE
