\* No restart is needed: a request that comes in during the approval is enough.
CONSTANTS
    Requesters = {c1, c2}
    MeetingIds = {m1, m2}
    NoMeeting = NoMeeting
    MaxMeetingRestarts = 0
    Threshold = 1
SPECIFICATION MeetingSpec
PROPERTY ApprovalIsAtomic
CHECK_DEADLOCK FALSE
