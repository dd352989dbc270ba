CONSTANTS
    Proc = {p1, p2}
    Frame = {f1, f2, f3, f4}
    text = text
    data = data
    Table = {text, data}
    Program <- Text
    Entry = {e1}
    Executable = {sh}
    Value = {v}
    Calls = {{"fork", "exec", "cloexec", "read"}, {"fork", "read"}, {"exec"}}
    None = None
SPECIFICATION MCSpec
INVARIANT CountIsUses
 
 
INVARIANT NothingLeaks
INVARIANT BucketsIntact
INVARIANT ShowsTheScreen
CHECK_DEADLOCK FALSE
