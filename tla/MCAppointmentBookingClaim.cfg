SPECIFICATION Spec
CONSTANTS
    c1 = c1
    c2 = c2
    s1 = s1
    s2 = s2
    s3 = s3
    Conversations = {c1}
    Names = {"a"}
    Times = {s1, s2, s3}
    Available = {s1, s2, s3}
    Overlaps <- MCOverlaps
INVARIANTS
    BookedTimeIsCommitted
