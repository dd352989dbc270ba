CONSTANTS
    Proc = {p1, p2}
    Frame = {f1, f2, f3, f4, f5}
    text = text
    data = data
    Table = {text, data}
    Program <- Text
    Entry = {e1}
    Executable = {sh}
    Value = {v}
    Calls = {{"fork", "exec"}}
    None = None
SPECIFICATION MCSpec
PROPERTY SharesOnlyTheProgram
CHECK_DEADLOCK FALSE
