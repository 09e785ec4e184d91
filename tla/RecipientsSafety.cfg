\* Two shippers and two enrolments, a stranger, two at once, two changes of
\* the set, one failure.
CONSTANTS
    Admins = {a1, a2}
    Founder = a1
    Strangers = {x1}
    Enrollers = {e1, e2}
    Shippers = {s1, s2}
    Chains = {c1}
    MaxKeys = 2
    MaxChanges = 2
    MaxFailures = 1
    MaxAtOnce = 2
SPECIFICATION Spec
SYMMETRY Symmetry
INVARIANTS OnlyVouchedAdmins EnrolmentIsWhole KeyFitsIdUnlessCutOff
PROPERTIES SetGoesBackHasCause RefusesOnlyWhenBehind
CHECK_DEADLOCK FALSE
