----------------------------- MODULE MCReceiver -----------------------------
(* A short ring and two commands that differ in RE00 and in one bus line.  *)
EXTENDS ReceiverProps

MCContexts == {Main, Tx, Gpio, Re}
MCCommands == {{0, 6}, {1, 6}}
MCJunk == {7 .. 11}
MCEvents == {<<"RE_CMD", c>> : c \in MCCommands}
            \cup ({"TU00", "TU03", "PRESENT_END", "PRESENT_START"} \X {{}})
=============================================================================
