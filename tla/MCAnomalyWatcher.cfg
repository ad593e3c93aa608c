SPECIFICATION Spec
CONSTANTS
    Loop = {l1, l2}
    Title = {t1, t2}
    NoTitle = NoTitle
    MaxFaults = 2
SYMMETRY Symmetry
INVARIANTS ToldOnce NothingHeldBack
