---------------------------- MODULE VoiceCodecInv ----------------------------
(***************************************************************************)
(* The inductive invariant behind CancelerAlive, DeletedOnce and           *)
(* DetectorAlive, for an application that is Quiet.                        *)
(***************************************************************************)
EXTENDS VoiceCodec

\* What old and new are in each call.
Locals ==
  /\ ctl \in {"install", "retire"} =>
       old \in Cancelers \cup {Nil} /\ new \in Cancelers \cup {Nil}
  /\ ctl = "unhook" => howling \in Detectors
  /\ ctl = "closehowling" => old \in Detectors
  /\ ctl = "hook" => new \in Detectors \cup {Nil}

\* Nothing is encoded while something is deleted, nor by a codec not open.
Settled ==
  /\ ctl \in Disturbing \/ codec # "open" => enc = "out"
  /\ ctl \in {"free", "unset"} => codec = "closed"
  /\ codec = "new" => ctl = "idle"

\* The canceller at work is a live one, wherever else it is by now.
Working ==
  /\ using # Nil => enc \in {"test", "cancel"} /\ life[using] = "open"
  /\ enc = "cancel" => using # Nil

\* mEchoCanceler is live until setCodecState or close take it down.
Installed ==
  /\ ctl \in {"close", "delete", "clear"} => aec # Nil
  /\ aec # Nil =>
       life[aec] = IF ctl = "delete" THEN "closed"
                   ELSE IF ctl = "clear" THEN "deleted" ELSE "open"

\* A canceller to be deleted is live, and is not the one installed.
Retiring ==
  /\ pending # Nil => life[pending] = "open" /\ pending # aec
  /\ doomed # Nil =>
       enc \in {"forget", "drop"} /\ life[doomed] = "open" /\ doomed # aec
  /\ enc = "drop" => doomed # Nil /\ pending # doomed

\* Between creation and retirement each canceller is in one place only.
Replacing ==
  /\ ctl = "install" =>
       /\ old = aec
       /\ new # Nil => life[new] = "open" /\ new \notin {aec, pending, doomed}
  /\ ctl = "retire" /\ old # Nil =>
       life[old] = "open" /\ old \notin {aec, pending, doomed}

\* A positive flag comes with a detector, except while it is being switched.
Detecting ==
  /\ howling # Nil /\ ctl # "unset" => detector[howling] = "ready"
  /\ ctl = "closehowling" => howling = Nil /\ detector[old] = "ready"
  /\ ctl = "create" => howling = Nil /\ howlOn > 0
  /\ ctl = "hook" => IF new = Nil THEN howlOn = 0 ELSE detector[new] = "ready"
  /\ codec = "open" /\ howlOn > 0 /\ ctl \notin {"unhook", "closehowling", "create", "hook"} =>
       howling # Nil
  /\ codec = "new" => howlOn = 0

\* The encoder's own test of isUsingHowlingDetect is still true.
Hearing ==
  /\ enc \in {"detect", "detecting"} => howlOn # 0
  /\ enc = "detecting" => listening = howling

CodecInv ==
  /\ TypeOK /\ Locals
  /\ Settled /\ Working /\ Installed /\ Retiring /\ Replacing /\ Detecting /\ Hearing
=============================================================================
