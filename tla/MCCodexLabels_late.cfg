CONSTANTS
    old = old
    new = new
    afterPush = afterPush
    scheduled = scheduled
    Commits = {old, new}
    Checks = {"CI Required"}
    Others = {"status"}
    Syncs = {afterPush, scheduled}
    First = old
    Starts <- MCStarts
SPECIFICATION Spec
INVARIANT ApprovedWasReviewed
