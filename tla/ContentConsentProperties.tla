---------------------- MODULE ContentConsentProperties ----------------------
(***************************************************************************)
(* What a consent grant promises about the content it admits.              *)
(***************************************************************************)
EXTENDS ContentConsent

(***************************************************************************)
(* Admitted bytes are one version of one regular file, whole: the one that *)
(* lstat found at the path, not a mixture of two versions, not empty or    *)
(* above the limit, and not linked elsewhere, whatever other processes did *)
(* between the calls.                                                      *)
(***************************************************************************)
AdmitsOneVersion ==
  [][reply'.code = "CONTENT_ADMITTED" /\ reply' # reply =>
       LET n == call.descriptor
       IN /\ call.stat.node = n
          /\ reply'.bytes = node[n].content
          /\ node[n].kind = "file" /\ node[n].links = 1
          /\ Len(reply'.bytes) \in 1..MaxBytes]_vars

(***************************************************************************)
(* A grant that was revoked or seen to be expired never admits again and   *)
(* never comes back, and an admission begins at a clock sample before the  *)
(* deadline that is not before any sample accepted earlier, however the    *)
(* clock jumps.                                                            *)
(***************************************************************************)
DeadStaysDead ==
  [][/\ grant.revoked \/ grant.expired =>
          /\ grant'.admitted = grant.admitted
          /\ grant'.revoked \/ grant'.expired
          /\ call' # call => call'.at = "idle"
     /\ call.at = "idle" /\ call'.at = "stat" =>
          grant'.last \in grant.last..(grant.issued + Lifetime - 1)]_vars
=============================================================================
