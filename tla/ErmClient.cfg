SPECIFICATION Spec
CONSTANTS
    Callers = {c1, c2}
    Ids = {r1}
    Zero = r0
    None = None
    MaxRequests = 2
   
PROPERTY CallsReturn
CHECK_DEADLOCK FALSE
