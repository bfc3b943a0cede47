\* One failure of Google opens the circuit; no restart.
CONSTANTS
    Requesters = {c1, c2}
    MeetingIds = {m1, m2}
    NoMeeting = NoMeeting
    MaxMeetingRestarts = 0
    Threshold = 1
SPECIFICATION MeetingSpec
INVARIANT SuccessMeansEvent
CHECK_DEADLOCK FALSE
