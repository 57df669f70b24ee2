\* Both freelist layouts, each refining PageStack.
SPECIFICATION Spec
CONSTANTS
    i1 = i1
    i2 = i2
    i3 = i3
    noId = noId
    tornId = tornId
PROPERTY DocImplementsPageStack
PROPERTY FmtImplementsPageStack
