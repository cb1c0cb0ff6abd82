CONSTANTS
    Macs = {m1}
    Threads = {t1}
    Objects = {o1, o2}
    Targets = {"booting", "installing", "post_install", "complete", "failed"}
    MaxHistory = 3
    MaxCrashes = 0
    None = None
SPECIFICATION Spec
PROPERTY TransitionsAreEnforced
