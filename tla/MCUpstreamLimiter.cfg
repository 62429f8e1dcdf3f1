SPECIFICATION Spec
CONSTANTS
  Tasks = {t1, t2, t3, t4, t5}
  Limit = 2
  Patient = {t1}
INVARIANTS
  TypeOK
  WorkConserving
PROPERTIES
  FirstComeFirstServed
  PatientGetsSlot
  ImplementsSemaphore
