---- MODULE MCNativeHop ----
EXTENDS NativeHop

\* A spool that replays two frames of an earlier open before its own: the frame
\* before the last is refused, the last too large to send.
MCQueue == << [id |-> "a", seq |-> 1], [id |-> "a", seq |-> 2], [id |-> "b", seq |-> 1],
              [id |-> "b", seq |-> 2], [id |-> "b", seq |-> 3] >>
====
