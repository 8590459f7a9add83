\* One interrupt is enough, if it comes while the thread is being started.
SPECIFICATION Spec
CONSTANT MaxInterrupts = 1
INVARIANT JoinedBeforeReturn
