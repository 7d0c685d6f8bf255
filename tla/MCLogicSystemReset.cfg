SPECIFICATION Spec
CONSTANTS
    Threads = {t1, t2}
    Emails = {e1, e2}
    Names = {n1}
    Passwords = {p1, p2}
    Codes = {c1}
    Connections = 2
    MaxPooled = 1
    None = None
PROPERTIES ResetsMatchUser
CHECK_DEADLOCK FALSE
