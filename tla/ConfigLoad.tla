------------------------------ MODULE ConfigLoad ------------------------------
(***************************************************************************)
(* Loading gitlab-shell's config (the config part of                       *)
(* internal/gitlabnet/twofactorverify/client.go: NewFromDirExternal,       *)
(* NewFromDir, newFromFile, parseSecret, ApplyGlobalState, IsSane, lines   *)
(* 197-201 and 228-319).  The defaults are copied, config.yml is read and  *)
(* unmarshalled over them, gitlab_url is path-unescaped, the secret is     *)
(* taken from the YAML or read from secret_file (default                   *)
(* .gitlab_shell_secret, relative to the config directory), and a relative *)
(* log_file is moved under the config directory.                           *)
(* A path is modelled by what filepath/path do to it: a sequence of        *)
(* segments, absolute when it starts with "/"; Join concatenates and drops *)
(* the inner "/", Dir drops the last segment.  A string the code only      *)
(* tests for emptiness is a member of a small set.                         *)
(***************************************************************************)
EXTENDS Naturals, Sequences, SequencesExt

IsAbs(p) == p # <<>> /\ p[1] = "/"
JoinPath(a, b) == a \o SelectSeq(b, LAMBDA s : s # "/")
DirPath(p) == Front(p)

\* The config directories, secret_file and log_file values considered.
Dirs         == {<<"/", "srv">>, <<"srv">>}
SecretFiles  == {<<>>, <<"sec">>, <<"/", "etc", "sec">>}
LogFiles     == {<<>>, <<"gl.log">>, <<"/", "var", "gl.log">>}
Urls         == {"", "plain", "escaped", "malformed"}
DefaultSecretFileName == <<".gitlab_shell_secret">>
DefaultLogFile == <<"gitlab-shell.log">>

\* What config.yml may contain: whether it can be read and unmarshalled,
\* and the keys parseSecret, IsSane and the path handling look at
\* (logFileSet is FALSE when the log_file key is absent).
Inputs == {i \in [read : {"missing", "invalid", "ok"}, secret : {"", "s1"},
                  secretFile : SecretFiles, gitlabUrl : Urls, logFileSet : BOOLEAN,
                  logFile : LogFiles, sslCertDir : {"", "certs"}] :
              ~i.logFileSet => i.logFile = <<>>}

\* The paths a secret may be read from, and what reading them gives.
SecretPaths == {JoinPath(d, f) : d \in Dirs, f \in {DefaultSecretFileName, <<"sec">>}}
                 \cup {<<"/", "etc", "sec">>}
Contents == {"unreadable", "", "s2"}

VARIABLES
    dir,       \* the directory given to NewFromDir(External)
    external,  \* NewFromDirExternal (TRUE) or NewFromDir
    input,     \* the content of config.yml
    fs,        \* fs[p]: the content of the secret file p
    cfg,       \* the returned *Config, or the error
    env,       \* SSL_CERT_DIR in the process environment
    sane       \* IsSane's result: "unchecked", "ok" or the error

vars == <<dir, external, input, fs, cfg, env, sane>>

ReadFile(p) == IF p \in DOMAIN fs THEN fs[p] ELSE "unreadable"

\* url.PathUnescape on the gitlab_url values considered.
PathUnescape(u) == CASE u = "escaped"   -> "unescaped"
                     [] u = "malformed" -> "error"
                     [] OTHER           -> u

Init ==
    /\ dir \in Dirs
    /\ external \in BOOLEAN
    /\ input \in Inputs
    /\ fs \in [SecretPaths -> Contents]
    /\ cfg = [err |-> "pending"]
    /\ env = ""
    /\ sane = "unchecked"

\* Mutant: an absolute secret_file is joined under the root as well.
ParseSecretAlwaysJoin(c) ==
    IF c.secret # "" THEN c
    ELSE LET p == IF c.secretFilePath = <<>> THEN DefaultSecretFileName ELSE c.secretFilePath
             q == JoinPath(c.rootDir, p)
         IN IF ReadFile(q) = "unreadable" THEN [err |-> "secret"]
            ELSE [c EXCEPT !.secretFilePath = q, !.secret = ReadFile(q)]

\* parseSecret: the YAML secret wins; otherwise secret_file (default
\* .gitlab_shell_secret), made absolute under RootDir, is read.
ParseSecret(c) ==
    IF c.secret # "" THEN c
    ELSE LET p == IF c.secretFilePath = <<>> THEN DefaultSecretFileName ELSE c.secretFilePath
             q == IF IsAbs(p) THEN p ELSE JoinPath(c.rootDir, p)
         IN IF ReadFile(q) = "unreadable" THEN [err |-> "secret"]
            ELSE [c EXCEPT !.secretFilePath = q, !.secret = ReadFile(q)]

\* Mutant: the log file is joined only when it starts with "/".
ResolveLogFileInverted(c) ==
    IF c.logFile # <<>> /\ IsAbs(c.logFile) /\ c.rootDir # <<>>
    THEN [c EXCEPT !.logFile = JoinPath(c.rootDir, @)] ELSE c

\* A non-empty log_file not starting with "/" is moved under RootDir.
ResolveLogFile(c) ==
    IF c.logFile # <<>> /\ ~IsAbs(c.logFile) /\ c.rootDir # <<>>
    THEN [c EXCEPT !.logFile = JoinPath(c.rootDir, @)] ELSE c

\* newFromFile(filepath.Join(dir, "config.yml")): defaults, read,
\* unmarshal, unescape, parseSecret, log file; the first error returns.
NewFromFile ==
    LET path == JoinPath(dir, <<"config.yml">>)
        c0 == [err |-> "none", rootDir |-> DirPath(path),
               gitlabUrl |-> input.gitlabUrl, secret |-> input.secret,
               secretFilePath |-> input.secretFile, sslCertDir |-> input.sslCertDir,
               logFile |-> IF input.logFileSet THEN input.logFile ELSE DefaultLogFile]
        c1 == [c0 EXCEPT !.gitlabUrl = PathUnescape(@)]
        c2 == ParseSecret(c1)
    IN CASE input.read = "missing"        -> [err |-> "read"]
         [] input.read = "invalid"        -> [err |-> "yaml"]
         [] c1.gitlabUrl = "error"        -> [err |-> "url"]
         [] c2.err # "none"               -> c2
         [] OTHER                         -> ResolveLogFile(c2)

\* NewFromDirExternal / NewFromDir; the external variant then runs
\* ApplyGlobalState, which exports a non-empty ssl_cert_dir.
Load ==
    /\ cfg.err = "pending"
    /\ cfg' = NewFromFile
    /\ env' = IF external /\ cfg'.err = "none" /\ cfg'.sslCertDir # ""
              THEN cfg'.sslCertDir ELSE env
    /\ UNCHANGED <<dir, external, input, fs, sane>>

\* cfg.IsSane() on a loaded config.
IsSane ==
    /\ cfg.err = "none"
    /\ sane = "unchecked"
    /\ sane' = CASE cfg.gitlabUrl = "" -> "gitlab_url is required"
                 [] cfg.secret = ""    -> "secret or secret_file_path is required"
                 [] OTHER              -> "ok"
    /\ UNCHANGED <<dir, external, input, fs, cfg, env>>

Next == Load \/ IsSane

Spec == Init /\ [][Next]_vars

-----------------------------------------------------------------------------
\* When config.yml loads, the secret is the YAML's, or else the content of
\* the file secret_file names (default .gitlab_shell_secret) read as a path
\* relative to the config directory unless absolute, and loading fails
\* exactly when that file cannot be read.
SecretFromConfiguredSource ==
    LET named == IF input.secretFile = <<>> THEN dir \o DefaultSecretFileName
                 ELSE IF input.secretFile[1] = "/" THEN input.secretFile
                 ELSE dir \o input.secretFile
    IN  /\ cfg.err = "none" /\ input.secret = "" => cfg.secret = ReadFile(named)
        /\ cfg.err = "secret" <=> (cfg.err # "pending" /\ input.read = "ok"
                                   /\ PathUnescape(input.gitlabUrl) # "error"
                                   /\ input.secret = ""
                                   /\ ReadFile(named) = "unreadable")

\* Loaded from an absolute directory, the config holds only absolute
\* paths: root dir, secret file (when read) and a non-empty log file.
ResolvedPathsAbsolute ==
    cfg.err = "none" /\ IsAbs(dir) =>
        /\ IsAbs(cfg.rootDir)
        /\ input.secret = "" => IsAbs(cfg.secretFilePath)
        /\ cfg.logFile # <<>> => IsAbs(cfg.logFile)
=============================================================================
