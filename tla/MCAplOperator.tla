--------------------------- MODULE MCAplOperator ---------------------------
(***************************************************************************)
(* The instances of AplOperator that TLC checks.                           *)
(***************************************************************************)
EXTENDS AplOperator

PlainCommits == Scopes \X {FALSE}

\* Marked commits of one scope suffice: the marker is looked at before the scope.
MarkedCommits == PlainCommits \cup {<<"platform", TRUE>>}

PlatformCommits == {<<"platform", FALSE>>}

=============================================================================
