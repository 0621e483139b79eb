------------------------ MODULE CallSignalingClaims ------------------------
(* What a comment of webrtc.gateway.ts says of call signalling, stated over  *)
(* CallSignaling.  The code does not keep it: TLC shows how.                 *)
EXTENDS CallSignaling

\* handleCallEnd, "if call was still ringing (not answered), it's missed": a call
\* recorded as missed is not one that was answered and is going on.
MissedMeansUnanswered ==
    \A c \in Calls : ~(record[c].status = "missed" /\ activeCalls[GwKey(c)].status = "active"
                       /\ activeCalls[GwKey(c)].saved)
=============================================================================
