\* Two processes on one file of four lines: appends, failing writes, restarts, damage.
CONSTANTS
    w1 = w1  w2 = w2
    Writers = {w1, w2}
    x = x  y = y
    Events = {x, y}
    Torn = Torn
    MaxLines = 4
    MaxFailures = 1
    MaxRestarts = 2
    MaxDamage = 1
SYMMETRY Interchangeable
SPECIFICATION Spec
INVARIANTS CleanFileVerifies VerifiedIsComplete
PROPERTIES DamageIsDetected
