\* Three threads; four inputs, the last of them isize::MIN, and three outputs.
SPECIFICATION FairSpec
CONSTANTS
  t1 = t1  t2 = t2  t3 = t3
  Threads = {t1, t2, t3}
  Half = 4
  None = None
INVARIANTS IssuedOnce ExhaustedMeansAll KeysIdentify
PROPERTY AllocationEnds
CHECK_DEADLOCK FALSE
