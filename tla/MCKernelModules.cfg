CONSTANTS
  Busy = {"buzzer_k", "tcrt5000_driver", "hc_sr04", "motorv1"}
  Told = {10}
SPECIFICATION Spec
INVARIANTS TypeOK NothingLeftBehind MisuseHasCause PinLossHasCause
CHECK_DEADLOCK FALSE
