------------------------ MODULE TunnelSupervisorProofs ------------------------
(***************************************************************************)
(* Proofs about TunnelSupervisor: signing out leaves nothing of the old    *)
(* identity behind, and the user is never left with nothing to click, for  *)
(* any number of sign-outs and of tunnels that end.                        *)
(***************************************************************************)
EXTENDS TunnelSupervisor, TLAPS

Bounds == MaxSignOuts \in Nat /\ MaxDeaths \in Nat

\* What is stored, and what a save of the configuration will write back, is of
\* the current account or not there.
NothingOldStored ==
    /\ account # 0
    /\ {stored.id, stored.key} \subseteq {0, account}
    /\ save.at = "read" => save.id \in {0, account}

\* An attempt has the current identity as soon as it has read it; what it holds is
\* never older, and there is no attempt while the identity is rotated.
AttemptIsCurrent ==
    /\ attempt.id \in {0, account} /\ attempt.key \in {0, account}
    /\ attempt.at \in {"key", "starting", "started"} => attempt.id = account
    /\ attempt.at \in {"starting", "started"} => attempt.key = account
    /\ attempt.at = "none" => attempt.id = 0 /\ attempt.key = 0
    /\ logout \in {"rotating", "rotated"} => attempt.at = "none"

\* Only between the rotation and the end of a sign-out is an old tunnel open.
TunnelIsCurrent ==
    logout # "rotated" /\ tunnel.open => tunnel.id = account /\ tunnel.key = account

\* An attempt is cancelled by a sign-out that still waits for it or by the end of
\* the program, and one that is over has left something to see.
AttemptIsAccountedFor ==
    /\ attempt.cancelled => attempt.at # "none" /\ (logout = "waiting" \/ closing)
    /\ attempt.at = "done" =>
          tunnel.open \/ watch \/ error \/ logout = "waiting" \/ closing

\* A sign-out begins only if the bound allows for one more identity.
RoomToRotate == logout \in {"waiting", "rotating"} => account <= MaxSignOuts

IInv ==
    /\ TypeOK /\ RoomToRotate /\ NothingOldStored /\ AttemptIsCurrent /\ TunnelIsCurrent
    /\ AttemptIsAccountedFor /\ NeverStuck

-----------------------------------------------------------------------------

\* The states of an attempt, and the flags.
Attempts == [at : {"none", "id", "key", "starting", "started", "failed", "done"},
             id : Generations, key : Generations, cancelled : BOOLEAN]
Tunnels == [open : BOOLEAN, id : Generations, key : Generations]
Saves == [at : {"idle", "read"}, id : Generations]
Records ==
    /\ stored \in [id : Generations, key : Generations]
    /\ attempt \in Attempts /\ tunnel \in Tunnels /\ save \in Saves
Flags ==
    /\ ghost \in BOOLEAN /\ watch \in BOOLEAN /\ error \in BOOLEAN
    /\ url \in BOOLEAN /\ closing \in BOOLEAN /\ unrotated \in BOOLEAN
Counts ==
    /\ account \in Generations /\ logout \in {"idle", "waiting", "rotating", "rotated"}
    /\ toStart \in 0 .. 2 /\ deaths \in 0 .. MaxDeaths

\* What a variable is reset to is typed.
LEMMA Blanks ==
    ASSUME Bounds
    PROVE  /\ 0 \in Generations /\ 1 \in Generations
           /\ NoTunnel \in Tunnels /\ NoSave \in Saves /\ NoAttempt \in Attempts
<1>1. 0 \in Generations /\ 1 \in Generations
  BY DEF Bounds, Generations
<1>2. NoTunnel \in Tunnels
  BY <1>1 DEF NoTunnel, Tunnels
<1>3. NoSave \in Saves
  BY <1>1 DEF NoSave, Saves
<1>4. NoAttempt \in Attempts
  BY <1>1 DEF NoAttempt, Attempts
<1> QED BY <1>1, <1>2, <1>3, <1>4

\* The invariant holds when the application starts.
LEMMA InvInit == ASSUME Bounds, Init PROVE IInv
<1>0. Records
  BY Blanks DEF Init, Records
<1>a. Flags /\ Counts
  <2>1. Flags
    BY DEF Init, Flags
  <2>2. Counts
    BY Blanks DEF Bounds, Init, Counts
  <2> QED BY <2>1, <2>2
<1>2. TypeOK
  BY <1>0, <1>a DEF TypeOK, Records, Flags, Counts, Attempts, Tunnels, Saves
<1>3. NothingOldStored /\ AttemptIsCurrent /\ TunnelIsCurrent /\ RoomToRotate
  BY DEF Init, NothingOldStored, AttemptIsCurrent, TunnelIsCurrent, RoomToRotate, NoAttempt,
         NoTunnel, NoSave
<1>4. AttemptIsAccountedFor /\ NeverStuck
  BY DEF Init, AttemptIsAccountedFor, NeverStuck, NoAttempt
<1> QED BY <1>2, <1>3, <1>4 DEF IInv

\* Every step is typed, records and flags apart.
LEMMA TypeStep == ASSUME Bounds, TypeOK, RoomToRotate, Next PROVE TypeOK'
<1>a. Records /\ Flags /\ Counts
  BY DEF TypeOK, Records, Flags, Counts, Attempts, Tunnels, Saves
<1> SUFFICES Records' /\ Flags' /\ Counts'
  BY DEF TypeOK, Records, Flags, Counts, Attempts, Tunnels, Saves
<1> USE <1>a, Blanks DEF Attempts, Tunnels, Saves
<1>1. CASE StartAutomaticTunnel
  <2>1. Records'
    BY <1>1 DEF StartAutomaticTunnel, Records, Counts
  <2>2. Flags'
    BY <1>1 DEF StartAutomaticTunnel, Flags
  <2>3. Counts'
    BY <1>1 DEF StartAutomaticTunnel, Counts
  <2> QED BY <2>1, <2>2, <2>3
<1>2. CASE EnsureInstanceID
  <2>1. Records'
    BY <1>2 DEF EnsureInstanceID, Records, Counts
  <2>2. Flags' /\ Counts'
    BY <1>2 DEF EnsureInstanceID, Flags, Counts
  <2> QED BY <2>1, <2>2
<1>3. CASE EnsureInstanceKey
  <2>1. Records'
    BY <1>3 DEF EnsureInstanceKey, Records, Counts
  <2>2. Flags' /\ Counts'
    BY <1>3 DEF EnsureInstanceKey, Flags, Counts
  <2> QED BY <2>1, <2>2
<1>4. CASE EnrollmentRequired
  <2>1. Records'
    BY <1>4 DEF EnrollmentRequired, Records, Counts
  <2>2. Flags' /\ Counts'
    BY <1>4 DEF EnrollmentRequired, Flags, Counts
  <2> QED BY <2>1, <2>2
<1>5. CASE StartReturns
  <2>1. Records'
    BY <1>5 DEF StartReturns, Records, Counts
  <2>2. Flags' /\ Counts'
    BY <1>5 DEF StartReturns, Flags, Counts
  <2> QED BY <2>1, <2>2
<1>6. CASE StartFailed
  <2>1. Records'
    BY <1>6 DEF StartFailed, Records, Counts
  <2>2. Flags' /\ Counts'
    BY <1>6 DEF StartFailed, Flags, Counts
  <2> QED BY <2>1, <2>2
<1>20. CASE EnsureFailed
  <2>1. Records'
    BY <1>20 DEF EnsureFailed, Records, Counts
  <2>2. Flags' /\ Counts'
    BY <1>20 DEF EnsureFailed, Flags, Counts
  <2> QED BY <2>1, <2>2
<1>7. CASE Started
  <2>1. Records'
    <3>1. attempt' \in Attempts
      BY <1>7 DEF Started, Records
    <3>2. tunnel' \in Tunnels
      <4>1. attempt.id \in Generations /\ attempt.key \in Generations
        BY DEF Records
      <4>2. [open |-> TRUE, id |-> attempt.id, key |-> attempt.key] \in Tunnels
        BY <4>1
      <4>3. tunnel' \in {tunnel, [open |-> TRUE, id |-> attempt.id, key |-> attempt.key]}
        BY <1>7 DEF Started
      <4> QED BY <4>2, <4>3 DEF Records
    <3> QED BY <1>7, <3>1, <3>2 DEF Started, Records
  <2>2. Flags' /\ Counts'
    BY <1>7 DEF Started, Flags, Counts
  <2> QED BY <2>1, <2>2
<1>8. CASE AttemptDone
  <2>1. Records'
    BY <1>8 DEF AttemptDone, Records, Counts
  <2>2. Flags' /\ Counts'
    BY <1>8 DEF AttemptDone, Flags, Counts
  <2> QED BY <2>1, <2>2
<1>9. CASE Registered
  <2>1. Records'
    BY <1>9 DEF Registered, Records, Counts
  <2>2. Flags' /\ Counts'
    BY <1>9 DEF Registered, Flags, Counts
  <2> QED BY <2>1, <2>2
<1>10. CASE Watch
  <2>1. Records'
    BY <1>10 DEF Watch, Records, Counts
  <2>2. Flags' /\ Counts'
    BY <1>10 DEF Watch, Flags, Counts, Bounds
  <2> QED BY <2>1, <2>2
<1>11. CASE Reported
  <2>1. Records'
    BY <1>11 DEF Reported, Records, Counts
  <2>2. Flags' /\ Counts'
    BY <1>11 DEF Reported, Flags, Counts
  <2> QED BY <2>1, <2>2
<1>12. CASE Retry
  <2>1. Records'
    BY <1>12 DEF Retry, Records, Counts
  <2>2. Flags' /\ Counts'
    BY <1>12 DEF Retry, Flags, Counts
  <2> QED BY <2>1, <2>2
<1>13. CASE LogoutGitHubAccount
  <2>1. Records'
    BY <1>13 DEF LogoutGitHubAccount, Records, Counts
  <2>2. Flags' /\ Counts'
    BY <1>13 DEF LogoutGitHubAccount, Flags, Counts
  <2> QED BY <2>1, <2>2
<1>14. CASE AwaitAttempt
  <2>1. Records'
    BY <1>14 DEF AwaitAttempt, Records, Counts
  <2>2. Flags' /\ Counts'
    BY <1>14 DEF AwaitAttempt, Flags, Counts
  <2> QED BY <2>1, <2>2
<1>15. CASE Rotate
  <2>0. account + 1 \in Generations
    BY <1>15 DEF Rotate, RoomToRotate, Counts, Generations, Bounds
  <2>1. Records'
    BY <1>15, <2>0 DEF Rotate, Records
  <2>2. Flags' /\ Counts'
    BY <1>15, <2>0 DEF Rotate, Flags, Counts
  <2> QED BY <2>1, <2>2
<1>16. CASE SignedOut
  <2>1. Records'
    BY <1>16 DEF SignedOut, Records, Counts
  <2>2. Flags'
    BY <1>16 DEF SignedOut, Flags
  <2>3. Counts'
    BY <1>16 DEF SignedOut, Counts
  <2> QED BY <2>1, <2>2, <2>3
<1>17. CASE ReadConfig
  <2>1. Records'
    BY <1>17 DEF ReadConfig, Records, Counts
  <2>2. Flags' /\ Counts'
    BY <1>17 DEF ReadConfig, Flags, Counts
  <2> QED BY <2>1, <2>2
<1>18. CASE SaveGlobalConfig
  <2>1. Records'
    BY <1>18 DEF SaveGlobalConfig, Records, Counts
  <2>2. Flags' /\ Counts'
    BY <1>18 DEF SaveGlobalConfig, Flags, Counts
  <2> QED BY <2>1, <2>2
<1>19. CASE CloseAutomaticTunnel
  <2>1. Records'
    BY <1>19 DEF CloseAutomaticTunnel, Records, Counts
  <2>2. Flags' /\ Counts'
    BY <1>19 DEF CloseAutomaticTunnel, Flags, Counts
  <2> QED BY <2>1, <2>2
<1> QED BY <1>1, <1>2, <1>3, <1>4, <1>5, <1>6, <1>7, <1>8, <1>9, <1>10, <1>11, <1>12,
           <1>13, <1>14, <1>15, <1>16, <1>17, <1>18, <1>19, <1>20 DEF Next

\* Every step keeps the invariant.
LEMMA InvStep == ASSUME Bounds, IInv, [Next]_vars PROVE IInv'
<1> SUFFICES ASSUME Next PROVE IInv'
  BY DEF vars, IInv, TypeOK, NothingOldStored, AttemptIsCurrent, TunnelIsCurrent,
         AttemptIsAccountedFor, NeverStuck, RoomToRotate, Resetting, RetryAvailable
<1>a. TypeOK /\ TypeOK'
  BY TypeStep DEF IInv
<1> USE <1>a DEF IInv
<1>1. CASE StartAutomaticTunnel
  <2>1. NothingOldStored' /\ AttemptIsCurrent' /\ TunnelIsCurrent' /\ RoomToRotate'
    BY <1>1 DEF StartAutomaticTunnel, NoAttempt, Resetting, TypeOK, NothingOldStored,
                AttemptIsCurrent, TunnelIsCurrent,
              RoomToRotate
  <2>2. AttemptIsAccountedFor' /\ NeverStuck'
    BY <1>1 DEF StartAutomaticTunnel, NoAttempt, TypeOK, AttemptIsCurrent,
                AttemptIsAccountedFor, NeverStuck, Resetting,
              RetryAvailable
  <2> QED BY <2>1, <2>2
<1>2. CASE EnsureInstanceID
  <2>1. NothingOldStored' /\ AttemptIsCurrent' /\ TunnelIsCurrent' /\ RoomToRotate'
    BY <1>2 DEF EnsureInstanceID, TypeOK, NothingOldStored, AttemptIsCurrent,
                TunnelIsCurrent,
              RoomToRotate
  <2>2. AttemptIsAccountedFor' /\ NeverStuck'
    BY <1>2 DEF EnsureInstanceID, TypeOK, AttemptIsCurrent, AttemptIsAccountedFor,
                NeverStuck, Resetting,
              RetryAvailable
  <2> QED BY <2>1, <2>2
<1>3. CASE EnsureInstanceKey
  <2>1. NothingOldStored' /\ AttemptIsCurrent' /\ TunnelIsCurrent' /\ RoomToRotate'
    BY <1>3 DEF EnsureInstanceKey, TypeOK, NothingOldStored, AttemptIsCurrent,
                TunnelIsCurrent,
              RoomToRotate
  <2>2. AttemptIsAccountedFor' /\ NeverStuck'
    BY <1>3 DEF EnsureInstanceKey, TypeOK, AttemptIsCurrent, AttemptIsAccountedFor,
                NeverStuck, Resetting,
              RetryAvailable
  <2> QED BY <2>1, <2>2
<1>4. CASE EnrollmentRequired
  <2>1. NothingOldStored' /\ AttemptIsCurrent' /\ TunnelIsCurrent' /\ RoomToRotate'
    BY <1>4 DEF EnrollmentRequired, TypeOK, NothingOldStored, AttemptIsCurrent,
                TunnelIsCurrent,
              RoomToRotate
  <2>2. AttemptIsAccountedFor' /\ NeverStuck'
    BY <1>4 DEF EnrollmentRequired, TypeOK, AttemptIsCurrent, AttemptIsAccountedFor,
                NeverStuck, Resetting,
              RetryAvailable
  <2> QED BY <2>1, <2>2
<1>5. CASE StartReturns
  <2>1. NothingOldStored' /\ AttemptIsCurrent' /\ TunnelIsCurrent' /\ RoomToRotate'
    <3>1. /\ attempt.at = "starting" /\ attempt'.at \in {"started", "failed", "done"}
          /\ attempt'.id = attempt.id /\ attempt'.key = attempt.key
      BY <1>5 DEF StartReturns, TypeOK
    <3>2. UNCHANGED <<stored, account, tunnel, logout, save>>
      BY <1>5 DEF StartReturns
    <3> QED BY <3>1, <3>2 DEF NothingOldStored, AttemptIsCurrent, TunnelIsCurrent,
                              RoomToRotate
  <2>2. AttemptIsAccountedFor' /\ NeverStuck'
    BY <1>5 DEF StartReturns, TypeOK, AttemptIsCurrent, AttemptIsAccountedFor,
                NeverStuck, Resetting,
              RetryAvailable
  <2> QED BY <2>1, <2>2
<1>6. CASE StartFailed
  <2>1. NothingOldStored' /\ AttemptIsCurrent' /\ TunnelIsCurrent' /\ RoomToRotate'
    BY <1>6 DEF StartFailed, TypeOK, NothingOldStored, AttemptIsCurrent, TunnelIsCurrent,
              RoomToRotate
  <2>2. AttemptIsAccountedFor' /\ NeverStuck'
    BY <1>6 DEF StartFailed, TypeOK, AttemptIsCurrent, AttemptIsAccountedFor,
                NeverStuck, Resetting,
              RetryAvailable
  <2> QED BY <2>1, <2>2
<1>20. CASE EnsureFailed
  <2>1. NothingOldStored' /\ AttemptIsCurrent' /\ TunnelIsCurrent' /\ RoomToRotate'
    BY <1>20 DEF EnsureFailed, TypeOK, NothingOldStored, AttemptIsCurrent, TunnelIsCurrent,
              RoomToRotate
  <2>2. AttemptIsAccountedFor' /\ NeverStuck'
    BY <1>20 DEF EnsureFailed, TypeOK, AttemptIsCurrent, AttemptIsAccountedFor,
                NeverStuck, Resetting,
              RetryAvailable
  <2> QED BY <2>1, <2>2
<1>7. CASE Started
  <2>1. NothingOldStored' /\ AttemptIsCurrent' /\ TunnelIsCurrent' /\ RoomToRotate'
    BY <1>7 DEF Started, TypeOK, NothingOldStored, AttemptIsCurrent, TunnelIsCurrent,
              RoomToRotate
  <2>2. AttemptIsAccountedFor' /\ NeverStuck'
    BY <1>7 DEF Started, TypeOK, AttemptIsCurrent, AttemptIsAccountedFor, NeverStuck,
                Resetting,
              RetryAvailable
  <2> QED BY <2>1, <2>2
<1>8. CASE AttemptDone
  <2>1. NothingOldStored' /\ AttemptIsCurrent' /\ TunnelIsCurrent' /\ RoomToRotate'
    BY <1>8 DEF AttemptDone, NoAttempt, TypeOK, NothingOldStored, AttemptIsCurrent,
                TunnelIsCurrent,
              RoomToRotate
  <2>2. AttemptIsAccountedFor' /\ NeverStuck'
    BY <1>8 DEF AttemptDone, NoAttempt, TypeOK, AttemptIsCurrent, AttemptIsAccountedFor,
                NeverStuck, Resetting,
              RetryAvailable
  <2> QED BY <2>1, <2>2
<1>9. CASE Registered
  <2>1. NothingOldStored' /\ AttemptIsCurrent' /\ TunnelIsCurrent' /\ RoomToRotate'
    BY <1>9 DEF Registered, TypeOK, NothingOldStored, AttemptIsCurrent, TunnelIsCurrent,
              RoomToRotate
  <2>2. AttemptIsAccountedFor' /\ NeverStuck'
    BY <1>9 DEF Registered, TypeOK, AttemptIsCurrent, AttemptIsAccountedFor, NeverStuck,
                Resetting,
              RetryAvailable
  <2> QED BY <2>1, <2>2
<1>10. CASE Watch
  <2>1. NothingOldStored' /\ AttemptIsCurrent' /\ TunnelIsCurrent' /\ RoomToRotate'
    BY <1>10 DEF Watch, NoTunnel, TypeOK, NothingOldStored, AttemptIsCurrent,
                 TunnelIsCurrent,
              RoomToRotate
  <2>2. AttemptIsAccountedFor' /\ NeverStuck'
    BY <1>10 DEF Watch, NoTunnel, TypeOK, AttemptIsCurrent, AttemptIsAccountedFor,
                 NeverStuck, Resetting,
              RetryAvailable
  <2> QED BY <2>1, <2>2
<1>11. CASE Reported
  <2>1. NothingOldStored' /\ AttemptIsCurrent' /\ TunnelIsCurrent' /\ RoomToRotate'
    BY <1>11 DEF Reported, TypeOK, NothingOldStored, AttemptIsCurrent, TunnelIsCurrent,
              RoomToRotate
  <2>2. AttemptIsAccountedFor' /\ NeverStuck'
    BY <1>11 DEF Reported, TypeOK, AttemptIsCurrent, AttemptIsAccountedFor, NeverStuck,
                 Resetting,
              RetryAvailable
  <2> QED BY <2>1, <2>2
<1>12. CASE Retry
  <2>1. NothingOldStored' /\ AttemptIsCurrent' /\ TunnelIsCurrent' /\ RoomToRotate'
    BY <1>12 DEF Retry, RetryAvailable, TypeOK, NothingOldStored, AttemptIsCurrent,
                 TunnelIsCurrent,
              RoomToRotate
  <2>2. AttemptIsAccountedFor' /\ NeverStuck'
    BY <1>12 DEF Retry, TypeOK, AttemptIsCurrent, AttemptIsAccountedFor, NeverStuck,
                 Resetting,
              RetryAvailable
  <2> QED BY <2>1, <2>2
<1>13. CASE LogoutGitHubAccount
  <2>1. NothingOldStored' /\ AttemptIsCurrent' /\ TunnelIsCurrent' /\ RoomToRotate'
    BY <1>13 DEF LogoutGitHubAccount, Resetting, TypeOK, NothingOldStored,
                 AttemptIsCurrent, TunnelIsCurrent,
              RoomToRotate
  <2>2. AttemptIsAccountedFor' /\ NeverStuck'
    BY <1>13 DEF LogoutGitHubAccount, TypeOK, AttemptIsCurrent, AttemptIsAccountedFor,
                 NeverStuck, Resetting,
              RetryAvailable
  <2> QED BY <2>1, <2>2
<1>14. CASE AwaitAttempt
  <2>1. NothingOldStored' /\ AttemptIsCurrent' /\ TunnelIsCurrent' /\ RoomToRotate'
    BY <1>14 DEF AwaitAttempt, TypeOK, NothingOldStored, AttemptIsCurrent, TunnelIsCurrent,
              RoomToRotate
  <2>2. AttemptIsAccountedFor' /\ NeverStuck'
    BY <1>14 DEF AwaitAttempt, TypeOK, AttemptIsCurrent, AttemptIsAccountedFor,
                 NeverStuck, Resetting,
              RetryAvailable
  <2> QED BY <2>1, <2>2
<1>15. CASE Rotate
  <2>1. NothingOldStored' /\ AttemptIsCurrent' /\ TunnelIsCurrent' /\ RoomToRotate'
    <3>1. CASE account' = account
      BY <1>15, <3>1 DEF Rotate, Mu, TypeOK, NothingOldStored, AttemptIsCurrent,
                        TunnelIsCurrent, RoomToRotate
    <3>2. CASE account' # account
      <4>1. /\ stored'.id = account' /\ stored'.key = account' /\ account' = account + 1
            /\ logout' = "rotated"
        BY <1>15, <3>2 DEF Rotate
      <4>2. account \in Nat
        BY DEF TypeOK, Generations, Bounds
      <4>3. logout = "rotating" /\ save.at = "idle" /\ UNCHANGED <<attempt, save>>
        BY <1>15 DEF Rotate, Mu
      <4> QED BY <4>1, <4>2, <4>3 DEF NothingOldStored, AttemptIsCurrent, TunnelIsCurrent,
                                      RoomToRotate
    <3> QED BY <3>1, <3>2
  <2>2. AttemptIsAccountedFor' /\ NeverStuck'
    BY <1>15 DEF Rotate, Mu, TypeOK, AttemptIsCurrent, AttemptIsAccountedFor,
                 NeverStuck, Resetting,
              RetryAvailable
  <2> QED BY <2>1, <2>2
<1>16. CASE SignedOut
  <2>1. NothingOldStored' /\ AttemptIsCurrent' /\ TunnelIsCurrent' /\ RoomToRotate'
    BY <1>16 DEF SignedOut, NoTunnel, TypeOK, NothingOldStored, AttemptIsCurrent,
                 TunnelIsCurrent,
              RoomToRotate
  <2>2. AttemptIsAccountedFor' /\ NeverStuck'
    BY <1>16 DEF SignedOut, NoTunnel, TypeOK, AttemptIsCurrent, AttemptIsAccountedFor,
                 NeverStuck, Resetting,
              RetryAvailable
  <2> QED BY <2>1, <2>2
<1>17. CASE ReadConfig
  <2>1. NothingOldStored' /\ AttemptIsCurrent' /\ TunnelIsCurrent' /\ RoomToRotate'
    BY <1>17 DEF ReadConfig, Mu, TypeOK, NothingOldStored, AttemptIsCurrent,
                 TunnelIsCurrent,
              RoomToRotate
  <2>2. AttemptIsAccountedFor' /\ NeverStuck'
    BY <1>17 DEF ReadConfig, Mu, TypeOK, AttemptIsCurrent, AttemptIsAccountedFor,
                 NeverStuck, Resetting,
              RetryAvailable
  <2> QED BY <2>1, <2>2
<1>18. CASE SaveGlobalConfig
  <2>1. NothingOldStored' /\ AttemptIsCurrent' /\ TunnelIsCurrent' /\ RoomToRotate'
    BY <1>18 DEF SaveGlobalConfig, NoSave, TypeOK, NothingOldStored, AttemptIsCurrent,
                 TunnelIsCurrent,
              RoomToRotate
  <2>2. AttemptIsAccountedFor' /\ NeverStuck'
    BY <1>18 DEF SaveGlobalConfig, NoSave, TypeOK, AttemptIsCurrent,
                 AttemptIsAccountedFor, NeverStuck, Resetting,
              RetryAvailable
  <2> QED BY <2>1, <2>2
<1>19. CASE CloseAutomaticTunnel
  <2>1. NothingOldStored' /\ AttemptIsCurrent' /\ TunnelIsCurrent' /\ RoomToRotate'
    BY <1>19 DEF CloseAutomaticTunnel, NoTunnel, TypeOK, NothingOldStored,
                 AttemptIsCurrent, TunnelIsCurrent,
              RoomToRotate
  <2>2. AttemptIsAccountedFor' /\ NeverStuck'
    BY <1>19 DEF CloseAutomaticTunnel, NoTunnel, TypeOK, AttemptIsCurrent,
                 AttemptIsAccountedFor, NeverStuck, Resetting,
              RetryAvailable
  <2> QED BY <2>1, <2>2
<1> QED BY <1>1, <1>2, <1>3, <1>4, <1>5, <1>6, <1>7, <1>8, <1>9, <1>10, <1>11, <1>12,
           <1>13, <1>14, <1>15, <1>16, <1>17, <1>18, <1>19, <1>20 DEF Next

\* The invariant holds throughout.
LEMMA InvAlways == ASSUME Bounds PROVE Spec => []IInv
<1>1. Init => IInv
  BY InvInit
<1>2. IInv /\ [Next]_vars => IInv'
  BY InvStep
<1> QED BY <1>1, <1>2, PTL DEF Spec

\* The state of the automatic tunnel stays well-formed (web.go, desktop_auth.go).
THEOREM TypeCorrect == ASSUME Bounds PROVE Spec => []TypeOK
<1>1. IInv => TypeOK
  BY DEF IInv
<1> QED BY <1>1, InvAlways, PTL

\* Nothing stored, attempted or open is of an identity that was signed out.
LEMMA InvSignsOut == ASSUME IInv PROVE SignedOutIsGone
  BY DEF IInv, NothingOldStored, AttemptIsCurrent, TunnelIsCurrent, SignedOutIsGone,
     Resetting

\* Signing out of GitHub leaves no half of the old identity in the database, in
\* an attempt or in an open tunnel (desktop_auth.go, state.go).
THEOREM SigningOutIsComplete == ASSUME Bounds PROVE Spec => []SignedOutIsGone
<1>1. IInv => SignedOutIsGone
  BY InvSignsOut
<1> QED BY <1>1, InvAlways, PTL

\* The user always has a tunnel, an attempt or a Retry button, but for the
\* exception that NeverStuck names (web.go).
THEOREM UserIsNeverStuck == ASSUME Bounds PROVE Spec => []NeverStuck
<1>1. IInv => NeverStuck
  BY DEF IInv
<1> QED BY <1>1, InvAlways, PTL
=============================================================================
