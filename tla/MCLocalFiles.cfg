SPECIFICATION Spec
CONSTANTS
    Procs = {p1, p2, p3}
    Target = Target
    Absent = Absent
    Kinds = {"presenter_key", "lez_account_key", "lez_private_account_key", "badge",
             "snapshot", "replay_cache", "votes", "token", "public"}
SYMMETRY ProcSymmetry
INVARIANTS
    FilesWellFormed
    AnnouncedIsKept
    SecretsStayPrivate
CHECK_DEADLOCK FALSE
