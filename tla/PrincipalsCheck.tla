---------------------------- MODULE PrincipalsCheck ----------------------------
(***************************************************************************)
(* The start-up of gitlab-shell-authorized-principals-check: main() of    *)
(* cmd/gitlab-shell-authorized-principals-check/main.go, and the older     *)
(* main.go kept at the end of src/Makefile (lines 91-136).  Each step may  *)
(* fail; a failure writes one message to stderr and calls os.Exit(1).      *)
(* The current main registers two deferred cleanups, the log closer and    *)
(* the command's finished(); Go runs deferred calls when main returns,     *)
(* last registered first, and os.Exit runs none of them.                   *)
(* Output text is abstracted to which message was written.  The config   *)
(* step is ConfigLoad's Load (NewFromDirExternal for the current main,     *)
(* NewFromDir for the older one) over a sample of config.yml contents.     *)
(***************************************************************************)
EXTENDS Sequences, SequencesExt

CONSTANTS
    Variants,  \* programs checked: "current" (main.go), "older" (the Makefile's)
    NoExit     \* model value: the process has not exited

ASSUME Variants \subseteq {"current", "older"}

VARIABLES
    variant,    \* the program that runs (fixed in a behaviour)
    pc,         \* the next statement of main
    versionArg, \* os.Args carries the version flag
    stderr,     \* messages written to readWriter.ErrOut, in order
    deferred,   \* cleanups registered with defer, in registration order
    ran,        \* cleanups that have run, in order
    exitCode,   \* the process' exit status, or NoExit
    dir, external, input, fs, cfg, env, sane   \* ConfigLoad's variables

configVars == <<dir, external, input, fs, cfg, env, sane>>
vars == <<variant, pc, versionArg, stderr, deferred, ran, exitCode, configVars>>

CL == INSTANCE ConfigLoad

\* The statements of main that can fail or register a cleanup, in order.
CurrentMain == <<"version", "executable", "config", "logger", "cmdNew", "setup", "execute">>
OlderMain   == <<"executable", "config", "cmdNew", "execute">>
MainSteps == IF variant = "current" THEN CurrentMain ELSE OlderMain

\* The statement after step st.
Following(st) == MainSteps[(CHOOSE i \in 1..Len(MainSteps) : MainSteps[i] = st) + 1]

\* The config.yml contents considered: every read outcome, secret and
\* gitlab_url, with a relative secret_file and an ssl_cert_dir.
SampleInputs == {i \in CL!Inputs : i.secretFile = <<"sec">> /\ ~i.logFileSet
                                    /\ i.sslCertDir = "certs"}

Init ==
    /\ variant \in Variants
    /\ pc = MainSteps[1]
    /\ versionArg \in BOOLEAN
    /\ stderr = <<>>
    /\ deferred = <<>>
    /\ ran = <<>>
    /\ exitCode = NoExit
    /\ dir \in CL!Dirs
    /\ external = (variant = "current")
    /\ input \in SampleInputs
    /\ fs \in [CL!SecretPaths -> {"unreadable", "s2"}]
    /\ cfg = [err |-> "pending"]
    /\ env = ""
    /\ sane = "unchecked"

\* os.Exit(code): the process ends at once; deferred calls do not run.
OsExit(code) ==
    /\ pc' = "exited"
    /\ exitCode' = code
    /\ UNCHANGED <<deferred, ran>>

\* Write msg to stderr and os.Exit(1).
Fail(msg) ==
    /\ stderr' = Append(stderr, msg)
    /\ OsExit(1)

\* command.CheckForVersionFlag: with the flag, print the version on stdout
\* and exit 0.
CheckForVersionFlag ==
    /\ pc = "version"
    /\ IF versionArg
       THEN OsExit(0) /\ UNCHANGED stderr
       ELSE pc' = Following("version") /\ UNCHANGED <<stderr, deferred, ran, exitCode>>
    /\ UNCHANGED versionArg

\* executable.New(executable.AuthorizedPrincipalsCheck) succeeds or fails.
ExecutableNew(ok) ==
    /\ pc = "executable"
    /\ IF ok THEN pc' = Following("executable") /\ UNCHANGED <<stderr, deferred, ran, exitCode>>
       ELSE Fail("Failed to determine executable, exiting")
    /\ UNCHANGED versionArg

\* Mutant: the config error is printed but the exit is missing.
ConfigNewNoExit ==
    /\ pc = "config"
    /\ CL!Load
    /\ pc' = Following("config")
    /\ stderr' = IF cfg'.err = "none" THEN stderr ELSE Append(stderr, "Failed to read config, exiting")
    /\ UNCHANGED <<versionArg, deferred, ran, exitCode>>

\* config.NewFromDirExternal (current) or config.NewFromDir (older).
ConfigNew ==
    /\ pc = "config"
    /\ CL!Load
    /\ IF cfg'.err = "none"
       THEN /\ pc' = Following("config")
            /\ UNCHANGED <<stderr, deferred, ran, exitCode>>
       ELSE Fail("Failed to read config, exiting")
    /\ UNCHANGED versionArg

\* logger.Configure(config); defer logCloser.Close().
LoggerConfigure ==
    /\ pc = "logger"
    /\ pc' = Following("logger")
    /\ deferred' = Append(deferred, "logCloser.Close")
    /\ UNCHANGED <<versionArg, stderr, ran, exitCode>>

\* Mutant: the command error is printed but the exit is missing.
CmdNewNoExit(ok) ==
    /\ pc = "cmdNew"
    /\ pc' = Following("cmdNew")
    /\ stderr' = IF ok THEN stderr ELSE Append(stderr, "command error")
    /\ UNCHANGED <<versionArg, deferred, ran, exitCode>>

\* cmd.New / command.New: fails e.g. when SSH_CONNECTION is not set; the
\* error is printed as it is.
CmdNew(ok) ==
    /\ pc = "cmdNew"
    /\ IF ok THEN /\ pc' = Following("cmdNew")
                  /\ UNCHANGED <<stderr, deferred, ran, exitCode>>
       ELSE Fail("command error")
    /\ UNCHANGED versionArg

\* ctx, finished := command.Setup(executable.Name, config); defer finished().
CommandSetup ==
    /\ pc = "setup"
    /\ pc' = Following("setup")
    /\ deferred' = Append(deferred, "finished")
    /\ UNCHANGED <<versionArg, stderr, ran, exitCode>>

\* cmd.Execute: an error is shown (a warning box in the current main, the
\* plain error in the older one) and the process exits 1; success returns
\* from main, which runs the deferred calls last-in first-out and exits 0.
Execute(ok) ==
    /\ pc = "execute"
    /\ IF ok
       THEN /\ pc' = "exited"
            /\ ran' = Reverse(deferred)
            /\ exitCode' = 0
            /\ UNCHANGED <<stderr, deferred>>
       ELSE Fail(IF variant = "current" THEN "warning" ELSE "command error")
    /\ UNCHANGED versionArg

\* Every step but the config step leaves the config's variables alone;
\* no step changes which program runs.
Next ==
    /\ \/ ConfigNew
       \/ /\ \/ CheckForVersionFlag \/ LoggerConfigure \/ CommandSetup
             \/ \E ok \in BOOLEAN : ExecutableNew(ok) \/ CmdNew(ok) \/ Execute(ok)
          /\ UNCHANGED configVars
    /\ UNCHANGED variant

Spec == Init /\ [][Next]_vars

-----------------------------------------------------------------------------
\* Whichever step fails, the process ends, and its exit status tells the
\* caller (sshd's AuthorizedPrincipalsCommand) what happened: 1 with
\* exactly one message on stderr after a failure, 0 with a silent stderr
\* otherwise.
ExitStatusReportsFailure ==
    pc = "exited" =>
        /\ exitCode \in {0, 1}
        /\ Len(stderr) <= 1
        /\ exitCode = 1 <=> Len(stderr) = 1

\* Every cleanup main registered with defer before it exits has run, last
\* registered first, on the failure paths too: logCloser.Close once a
\* cmd.New failure (line 52) exits, and finished() as well once an Execute
\* failure (line 60) exits.
CleanupsRunOnExit ==
    pc = "exited" => ran = Reverse(deferred)
=============================================================================
