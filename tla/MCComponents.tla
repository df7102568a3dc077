---------------------------- MODULE MCComponents ----------------------------
(****************************************************************************)
(* TLC instance of Components: every modelled component, or one alone.      *)
(****************************************************************************)
EXTENDS Components

MCKinds == AllKinds

(* OpenAIChat can fill its channels, the socket servers that route responses  *)
(* or queue them get one, the other servers two, Cmd starts a second child,  *)
(* the rest get more than one budget.                                       *)
MCMaxFed(k) ==
    CASE k = OpenAIChat -> 4
      [] k \in {TCPServer, UnixSocketServer, TLSServer} -> 1
      [] k \in {WSServer, HTTPServer, Cmd} -> 2
      [] OTHER -> 3
MCRepeat == {Repeat}
MCTCPServer == {TCPServer}
MCIMAPFetch == {IMAPFetch}
=============================================================================
