--------------------------- MODULE MCFastQReceiver ---------------------------
(* Instances of FastQReceiver for TLC. *)
EXTENDS FastQReceiver

\* The calls that keep the receiver informed.  With epoll all of them do;
\* with select() FastQAddSet does not write the notify eventfd.
InformingCreators == {<<"select", "FastQCreateModule">>,
                      <<"epoll", "FastQCreateModule">>,
                      <<"epoll", "FastQAddSet">>}

AddSetCreators == {<<"select", "FastQAddSet">>}
=============================================================================
