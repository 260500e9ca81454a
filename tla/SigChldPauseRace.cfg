CONSTANT N = 2
SPECIFICATION Spec
CHECK_DEADLOCK FALSE
PROPERTIES AllReapedIsReported
