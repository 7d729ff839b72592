\* The documented link of each record to the one before, against failing writes.
CONSTANTS
    w1 = w1  w2 = w2
    Writers = {w1}
    x = x  y = y
    Events = {x, y}
    Torn = Torn
    MaxLines = 4
    MaxFailures = 2
    MaxRestarts = 2
    MaxDamage = 1
SPECIFICATION Spec
INVARIANTS EachNamesPrevious

