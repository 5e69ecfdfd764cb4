----------------------------- MODULE MCServices -----------------------------
(* What must come to an end, on small instances: an HTTP execution, the      *)
(* acquisition of tokens, the device code flow.  A behaviour is one of one   *)
(* part: the initial state names it, and the others keep one fixed state.    *)
(*                                                                           *)
(* chain: two servers, three methods, two redirects, two attempts.           *)
(* tokens: two requests, four tokens.  device: a code of three ticks.        *)
EXTENDS HttpChain, OAuthTokens, DeviceCode

VARIABLE part
servicesVars == <<chainVars, tokenVars, deviceVars, part>>
Parts == {"chain", "tokens", "device"}

ServicesInit ==
  /\ ChainInit /\ TokensInit /\ DeviceInit
  /\ part \in Parts
  /\ part # "chain" => desc = CHOOSE d \in Descriptors : TRUE

\* A step of one part.
Of(name, step, rest) == part = name /\ step /\ UNCHANGED <<part, rest>>

OfChain(step)  == Of("chain", step, <<tokenVars, deviceVars>>)
OfTokens(step) == Of("tokens", step, <<chainVars, deviceVars>>)
OfDevice(step) == Of("device", step, <<chainVars, tokenVars>>)

ServicesNext == OfChain(ChainNext) \/ OfTokens(TokensNext) \/ OfDevice(DeviceNext)

\* The fairness of the parts.  Only one of them ever steps, so their conditions
\* may share a conjunct.
ServicesFairness ==
  /\ WF_servicesVars(OfChain(pc = "head" /\ ConnectionFails) \/ OfDevice(flow # "idle" /\ Tick))
  /\ WF_servicesVars(OfChain(BodyEnds("status")) \/ OfDevice(NoCode \/ CodeArrives))
  /\ WF_servicesVars(OfChain(AbortedLegFails) \/ OfDevice(PromptOpens))
  /\ WF_servicesVars(OfChain(WakeUp) \/ OfDevice(WakeToPoll))
  /\ WF_servicesVars(OfDevice(PollIsAnswered))
  /\ \A j \in Exchanges : WF_servicesVars(OfTokens(ExchangeEnds(j)))

ServicesSpec == ServicesInit /\ [][ServicesNext]_servicesVars /\ ServicesFairness

-----------------------------------------------------------------------------
\* What the user waits for ends: an acquisition of a token, which gets one or an
\* error, and the device code flow, which is one way to get a token and shows
\* its code until then.
WhatBeginsEnds == AcquisitionsEnd /\ DeviceFlowEnds /\ []PolledCodeIsShown

\* The type invariants of the parts.
ServicesTypeOK == ChainTypeOK /\ TokensTypeOK /\ DeviceTypeOK
=============================================================================
