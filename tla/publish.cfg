CONSTANTS
    Posts = {p, q, b}
    Beats = {b}
    Agents = {a}
    Keeps = {1, 2}
    Rates = {1}
    Minute = 1
    Quiet = 1
    Lanes = 2
    Until = 1
    Hook = TRUE
    Null = Null
SPECIFICATION PublishSpec
SYMMETRY Symmetry
INVARIANTS TrimsOldestFirst WriteRateBounded PauseStopsPosting MentionsCoalesced AnsweredIsAnnounced
CHECK_DEADLOCK FALSE
