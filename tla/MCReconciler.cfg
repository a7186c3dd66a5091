CONSTANTS
    GitLab = GitLab
    OtherGitLab = OtherGitLab
    Vault = Vault
    T1 = T1
    T2 = T2
    Gid = {11, 12}
    Path = {1, 2, 3}
    Rule = {GitLab, Vault}
    VaultRule = {Vault}
    Tgt = {T1, T2}
    TargetOf <- OwnTargets
    Unmatched = Unmatched
    Unsafe = Unsafe
    Configs <- TwoModes
    Absent = Absent
    NoMapping = NoMapping
    MaxEnv = 3
    MaxOutages = 1
    MaxRestarts = 1
    MaxFaults = 1
SPECIFICATION Spec
INVARIANTS TypeOK OneSourcePerTarget
PROPERTIES AccessKept Convergence
