-------------------------- MODULE TObjectAuthScope --------------------------
(***************************************************************************)
(* TObject with a history variable authBy: authBy[o] is the set of         *)
(* sessions whose context login on o succeeded since o's auth state was    *)
(* last cleared (logout, destroy, re-creation).  The history is not state  *)
(* of the code; it lets a property ask whether the session that uses a     *)
(* private key is the session that authenticated it, as spec section 4.4  *)
(* requires, while object.h keeps one is_authenticated flag and one        *)
(* unsealed_auth per tobject, shared by every session of the token.       *)
(***************************************************************************)
EXTENDS TObject

VARIABLE authBy

hVars == <<vars, authBy>>

HInit ==
    /\ Init
    /\ authBy = [o \in Objects |-> {}]

(* The history follows each call as TObject reports it in lastCall'. *)
HNext ==
    /\ Next
    /\ LET c == lastCall' IN
       authBy' =
         CASE c.call = "ContextLogin" /\ c.rv = "OK" ->
                  [authBy EXCEPT ![c.o] = @ \cup {c.s}]
           [] c.call \in {"Create", "Destroy"} /\ c.rv = "OK" ->
                  [authBy EXCEPT ![c.o] = {}]
           [] c.call = "Logout" -> [o \in Objects |-> {}]
           [] OTHER -> authBy

HSpec == HInit /\ [][HNext]_hVars

(* Spec 4.4: a private-key operation on an object with a wrapped auth    *)
(* succeeds only for a session that has itself authenticated the object; *)
(* the auth state of one session is not usable by another.              *)
SignUsesOwnAuth ==
    [][ LET c == lastCall' IN
        c.call = "Sign" /\ c.rv = "OK" /\ objauth[c.o] => c.s \in authBy[c.o]
      ]_hVars

=============================================================================
