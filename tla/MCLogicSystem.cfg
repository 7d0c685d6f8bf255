SPECIFICATION Spec
CONSTANTS
    Threads = {t1, t2}
    Emails = {e1, e2}
    Names = {n1}
    Passwords = {p1, p2}
    Codes = {c1}
    Connections = 1
    MaxPooled = 1
    None = None
INVARIANTS TypeOK RefusalsChangeNothing
PROPERTIES ImplementsPool RegisteredWithIssuedCode ResetsAreChecked
SYMMETRY Symmetry
CHECK_DEADLOCK FALSE
