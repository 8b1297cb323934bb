CONSTANT File = {f1, f2, f3, f4}
SPECIFICATION ShellsSpec
INVARIANT ShellsAreTakenBack
CHECK_DEADLOCK FALSE
