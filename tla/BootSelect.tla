----------------------------- MODULE BootSelect -----------------------------
(***************************************************************************)
(* The first init of the device (init_main.cpp): it unpacks the ramdisk of *)
(* Android or of the recovery and becomes its /init.  The recovery is      *)
(* chosen by a file that pre-recovery.sh left in /cache before a reboot,   *)
(* or by a volume key that keycheck, a child of init's, sees in time.      *)
(* Power may fail at any point; only the file outlives that.               *)
(***************************************************************************)
EXTENDS Integers, FiniteSets

CONSTANTS
    Inputs,             \* the nodes /dev/input/event*
    KEYCHECK_TIMEOUT,   \* seconds
    MaxBoots            \* bound: times the device is switched on

ASSUME BootAssumption ==
    /\ KEYCHECK_TIMEOUT \in Nat \ {0}
    /\ MaxBoots \in Nat

KEYCHECK_RECOVERY_BOOT == 41 * 256
KEYCHECK_RECOVERY_FOTA == 42 * 256

VARIABLES
    warmboot,       \* what /cache/recovery/boot holds: "none" when there is none
    bootAt,         \* where init is
    clock,          \* seconds since it began to wait for keycheck
    recoveryBoot,
    ramdisk,        \* what is unpacked: "none", "recovery" or "android"
    keycheckAt,     \* the child: "none", keycheck at "scan", "poll" or "read",
                    \* a second "init" or its "/init", or "exited"
    exitStatus,     \* its status, as waitpid returns it
    ready,          \* the inputs whose revents poll has set
    events,         \* events[d]: the event waiting there: "none", "key", "other"
    boots,          \* times left to switch on
    askedFor        \* history: what asked for the recovery in this boot

bootVars == <<warmboot, bootAt, clock, recoveryBoot, ramdisk, keycheckAt,
              exitStatus, ready, events, boots, askedFor>>

keycheckVars == <<keycheckAt, exitStatus, ready>>

BootInit ==
    /\ warmboot \in {"none", "recovery", "bootloader"}
    /\ bootAt = "off"
    /\ clock = 0 /\ recoveryBoot = FALSE /\ ramdisk = "none"
    /\ keycheckAt = "none" /\ exitStatus = 0 /\ ready = {}
    /\ events = [d \in Inputs |-> "none"]
    /\ boots = MaxBoots /\ askedFor = {}

-----------------------------------------------------------------------------
(* init. *)

SwitchOn ==
    /\ bootAt = "off" /\ boots > 0
    /\ boots' = boots - 1
    /\ bootAt' = "start"
    /\ UNCHANGED <<warmboot, clock, recoveryBoot, ramdisk, keycheckVars,
                   events, askedFor>>

(* Nodes and mounts are made and the file is looked for.  With it, the     *)
(* keys are not.                                                           *)
DetectRecovery ==
    /\ bootAt = "start"
    /\ recoveryBoot' = (warmboot = "recovery")
    /\ askedFor' = IF warmboot = "recovery" THEN {"file"} ELSE {}
    /\ bootAt' = IF warmboot = "recovery" THEN "introduce" ELSE "fork"
    /\ UNCHANGED <<warmboot, clock, ramdisk, keycheckVars, events, boots>>

(* system_exec_bg: without a child when fork fails; a child whose execv    *)
(* fails returns from here as well, a second init.                         *)
ForkKeycheck ==
    /\ bootAt = "fork"
    /\ keycheckAt' \in {"scan", "none", "init"}
    /\ clock' = 0
    /\ bootAt' = "wait"
    /\ UNCHANGED <<warmboot, recoveryBoot, ramdisk, exitStatus, ready, events,
                   boots, askedFor>>

(* Mutant: any status of the child is taken for a key. *)
WaitAnyStatus ==
    /\ bootAt = "wait"
    /\ \/ /\ keycheckAt = "exited"
          /\ recoveryBoot' = (exitStatus # 0)
          /\ keycheckAt' = "none"
          /\ bootAt' = "introduce"
       \/ /\ keycheckAt = "none"
          /\ recoveryBoot' = FALSE
          /\ bootAt' = "introduce"
          /\ UNCHANGED keycheckAt
       \/ /\ keycheckAt \notin {"exited", "none"}
          /\ bootAt' = "time"
          /\ UNCHANGED <<recoveryBoot, keycheckAt>>
    /\ UNCHANGED <<warmboot, clock, ramdisk, exitStatus, ready, events, boots, askedFor>>

(* One round of system_exec_kill: waitpid, which ends the loop when there  *)
(* is a status or nobody to wait for, ...                                  *)
WaitPid ==
    /\ bootAt = "wait"
    /\ \/ /\ keycheckAt = "exited"
          /\ recoveryBoot' = (exitStatus \in {KEYCHECK_RECOVERY_BOOT,
                                              KEYCHECK_RECOVERY_FOTA})
          /\ keycheckAt' = "none"
          /\ bootAt' = "introduce"
       \/ /\ keycheckAt = "none"
          /\ recoveryBoot' = FALSE
          /\ bootAt' = "introduce"
          /\ UNCHANGED keycheckAt
       \/ /\ keycheckAt \notin {"exited", "none"}
          /\ bootAt' = "time"
          /\ UNCHANGED <<recoveryBoot, keycheckAt>>
    /\ UNCHANGED <<warmboot, clock, ramdisk, exitStatus, ready, events, boots, askedFor>>

(* ... and the clock: another round, or the child is killed, even one that *)
(* has a status by now.  Nobody waits for it; it is taken to die before it *)
(* reads another event.                                                    *)
LookAtClock ==
    /\ bootAt = "time"
    /\ \/ /\ clock < KEYCHECK_TIMEOUT
          /\ bootAt' = "wait"
          /\ UNCHANGED <<recoveryBoot, keycheckAt>>
       \/ /\ clock >= KEYCHECK_TIMEOUT
          /\ keycheckAt' = "none"
          /\ recoveryBoot' = FALSE
          /\ bootAt' = "introduce"
    /\ UNCHANGED <<warmboot, clock, ramdisk, exitStatus, ready, events, boots, askedFor>>

(* introduce_recovery deletes the file; introduce_android shows a light. *)
Introduce ==
    /\ bootAt = "introduce"
    /\ warmboot' = IF recoveryBoot THEN "none" ELSE warmboot
    /\ bootAt' = "unpack"
    /\ UNCHANGED <<clock, recoveryBoot, ramdisk, keycheckVars, events, boots, askedFor>>

(* cpio; its status is not looked at. *)
Unpack ==
    /\ bootAt = "unpack"
    /\ ramdisk' \in {ramdisk, IF recoveryBoot THEN "recovery" ELSE "android"}
    /\ bootAt' = "finish"
    /\ UNCHANGED <<warmboot, clock, recoveryBoot, keycheckVars, events, boots, askedFor>>

(* finish_init, the nodes are removed, and init becomes /init, if there is *)
(* one.                                                                    *)
FinishInit ==
    /\ bootAt = "finish"
    /\ bootAt' = IF ramdisk = "none" THEN "panic" ELSE "running"
    /\ UNCHANGED <<warmboot, clock, recoveryBoot, ramdisk, keycheckVars, events,
                   boots, askedFor>>

(* The second init has no child to wait for: it goes through the same      *)
(* steps to Android while the first one waits for it, and becomes /init,   *)
(* or returns from main when cpio has left it none.                        *)
SecondInit ==
    /\ keycheckAt = "init"
    /\ \/ /\ ramdisk' = "android"
          /\ keycheckAt' = "/init"
          /\ UNCHANGED exitStatus
       \/ /\ keycheckAt' = "exited"
          /\ exitStatus' = 0
          /\ UNCHANGED ramdisk
    /\ UNCHANGED <<warmboot, bootAt, clock, recoveryBoot, ready, events, boots,
                   askedFor>>

-----------------------------------------------------------------------------
(* keycheck. *)

(* scan_dir opens every node, unless the directory cannot be watched. *)
ScanDir ==
    /\ keycheckAt = "scan"
    /\ \/ keycheckAt' = "poll" /\ UNCHANGED exitStatus
       \/ keycheckAt' = "exited" /\ exitStatus' = 256
    /\ UNCHANGED <<warmboot, bootAt, clock, recoveryBoot, ramdisk, ready, events,
                   boots, askedFor>>

PollInputs ==
    /\ keycheckAt = "poll"
    /\ ready' = {d \in Inputs : events[d] # "none"}
    /\ ready' # {}
    /\ keycheckAt' = "read"
    /\ UNCHANGED <<warmboot, bootAt, clock, recoveryBoot, ramdisk, exitStatus,
                   events, boots, askedFor>>

(* The next of the inputs that are ready: a key ends keycheck, and so does *)
(* an error.                                                               *)
ReadEvent(d) ==
    /\ keycheckAt = "read" /\ d \in ready
    /\ ready' = ready \ {d}
    /\ events' = [events EXCEPT ![d] = "none"]
    /\ \/ events[d] = "key" /\ exitStatus' = 42 * 256
       \/ exitStatus' = 256
       \/ events[d] = "other" /\ UNCHANGED exitStatus
    /\ keycheckAt' = IF exitStatus' # exitStatus THEN "exited"
                     ELSE IF ready' = {} THEN "poll" ELSE "read"
    /\ UNCHANGED <<warmboot, bootAt, clock, recoveryBoot, ramdisk, boots, askedFor>>

-----------------------------------------------------------------------------
(* The user, the clock and the power. *)

InputEvent(d) ==
    /\ bootAt \in {"fork", "wait", "time"} /\ events[d] = "none"
    /\ \E e \in {"key", "other"} :
        /\ events' = [events EXCEPT ![d] = e]
        /\ askedFor' = IF e = "key" THEN askedFor \union {"key"} ELSE askedFor
    /\ UNCHANGED <<warmboot, bootAt, clock, recoveryBoot, ramdisk, keycheckVars, boots>>

BootTick ==
    /\ bootAt \in {"wait", "time"} /\ clock < KEYCHECK_TIMEOUT
    /\ clock' = clock + 1
    /\ UNCHANGED <<warmboot, bootAt, recoveryBoot, ramdisk, keycheckVars, events,
                   boots, askedFor>>

(* pre-recovery.sh, before Android reboots: what is to be started. *)
PreRecovery ==
    /\ bootAt = "running" /\ ramdisk = "android"
    /\ warmboot' \in {"recovery", "bootloader"}
    /\ bootAt' = "reboot"
    /\ UNCHANGED <<clock, recoveryBoot, ramdisk, keycheckVars, events, boots, askedFor>>

(* postrecoveryboot.sh, in the recovery. *)
PostRecoveryBoot ==
    /\ bootAt = "running" /\ ramdisk = "recovery"
    /\ warmboot' = "none"
    /\ bootAt' = "reboot"
    /\ UNCHANGED <<clock, recoveryBoot, ramdisk, keycheckVars, events, boots, askedFor>>

(* A reboot, or no power: memory is lost. *)
SwitchOff ==
    /\ bootAt # "off"
    /\ bootAt' = "off"
    /\ clock' = 0 /\ recoveryBoot' = FALSE /\ ramdisk' = "none"
    /\ keycheckAt' = "none" /\ exitStatus' = 0 /\ ready' = {}
    /\ events' = [d \in Inputs |-> "none"]
    /\ askedFor' = {}
    /\ UNCHANGED <<warmboot, boots>>

BootNext ==
    \/ SwitchOn \/ DetectRecovery \/ ForkKeycheck \/ WaitPid \/ LookAtClock
    \/ Introduce \/ Unpack \/ FinishInit \/ SecondInit
    \/ ScanDir \/ PollInputs
    \/ \E d \in Inputs : ReadEvent(d) \/ InputEvent(d)
    \/ BootTick \/ PreRecovery \/ PostRecoveryBoot \/ SwitchOff

-----------------------------------------------------------------------------
(* What init promises. *)

(* The recovery is unpacked only when the file or a volume key asked for   *)
(* it in this boot, however keycheck ended, and the file always gets it:   *)
(* Android is never unpacked in its place.                                 *)
RecoveryWhenAsked ==
    /\ ramdisk = "recovery" => askedFor # {}
    /\ ramdisk = "android" => "file" \notin askedFor
=============================================================================
