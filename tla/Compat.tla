------------------------------- MODULE Compat -------------------------------
(***************************************************************************)
(* The pure decisions of dap_mux/compat.py: which adapter events are kept  *)
(* from the clients, which adapter requests are known, and which client    *)
(* answers them.                                                           *)
(***************************************************************************)
EXTENDS SequencesExt

\* debugpy's custom events and the subprocess event are not forwarded.
ShouldFilterEvent(event) ==
  event \in {"debugpySockets", "debugpyAttach", "startDebugging"}

IsKnownReverseRequest(command) == command \in {"runInTerminal", "startDebugging"}

\* Variant for mutation: the clients that opted in are not preferred.
PickFirstTarget(initOrder, optIn, command) ==
  {initOrder[i] : i \in {k \in DOMAIN initOrder : k = 1}}

\* initOrder lists the keys of the dictionary of initialize arguments, in the
\* order they were inserted; optIn is the set of clients whose arguments have
\* supportsRunInTerminalRequest.  The result is the set of the client chosen,
\* empty when no client has initialized.
PickReverseRequestTarget(initOrder, optIn, command) ==
  LET willing == {i \in DOMAIN initOrder : initOrder[i] \in optIn}
      eligible == IF command = "runInTerminal" /\ willing # {} THEN willing
                  ELSE DOMAIN initOrder
  IN {initOrder[i] : i \in {k \in eligible : \A j \in eligible : k <= j}}

=============================================================================
