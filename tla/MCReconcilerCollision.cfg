CONSTANTS
    GitLab = GitLab
    OtherGitLab = OtherGitLab
    Vault = Vault
    T1 = T1
    T2 = T2
    Gid = {11, 12}
    Path = {1, 2}
    Rule = {GitLab, OtherGitLab}
    VaultRule = {}
    Tgt = {T1, T2}
    TargetOf <- SharedTarget
    Unmatched = Unmatched
    Unsafe = Unsafe
    Configs <- Prefixes
    Absent = Absent
    NoMapping = NoMapping
    MaxEnv = 4
    MaxOutages = 1
    MaxRestarts = 1
    MaxFaults = 1
SPECIFICATION Spec
INVARIANT OneSourcePerTarget
