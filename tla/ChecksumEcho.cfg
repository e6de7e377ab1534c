SPECIFICATION Spec
CONSTANT DATA = {0, 1, 65534, 65535}
INVARIANT EchoVerifies
