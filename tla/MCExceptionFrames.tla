------------------------- MODULE MCExceptionFrames -------------------------
(* Four shapes of try statements; exceptions of two classes and, when there *)
(* is no memory for an object, mere messages (tp_throw).                    *)
EXTENDS ExceptionFrames, TLC

\* catch (My) without and with finally, finally alone, and an or { } block,
\* whose only clause names Exception.
MCSites == {"catch", "catch finally", "finally", "or"}
MCClasses == {"Exception", "My", "message"}
MCHandles ==
       ("catch" :> {"My"}) @@ ("catch finally" :> {"My"})
    @@ ("finally" :> {}) @@ ("or" :> {"Exception", "My"})
=============================================================================
