SPECIFICATION HiringSpec
CONSTANTS
    Requests = {q1, q2}
    Nothing = Nothing
    MaxMoves = 2
SYMMETRY Symmetry
INVARIANTS
    AnswerStands
    StageFollowsAnswer
    LoginMeansYes
