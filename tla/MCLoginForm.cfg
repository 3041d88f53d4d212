\* Two overlapping sign-ins, each of which may leave a notice.
CONSTANTS
    Attempts = {c1, c2}
    MaxNotices = 2
SPECIFICATION FormFairSpec
INVARIANTS
    LoginButtonTellsForm
    SpinnerMeansPending
PROPERTY SpinnerEnds
