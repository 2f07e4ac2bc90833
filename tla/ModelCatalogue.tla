---------------------------- MODULE ModelCatalogue ----------------------------
(* The tables of models.rs: which surfaces the catalogue lists, in order, and *)
(* under which provider.                                                     *)
EXTENDS Integers, Sequences, TLC

Providers ==
    [s \in {"claude-opus-5.5", "claude-fable-5.1"} |-> "anthropic"] @@
    [s \in {"gpt-6-astra", "gpt-6-sol", "gpt-5.6-terra", "gpt-6-luna"} |-> "openai"] @@
    [s \in {"qwen3.8-max", "qwen3.8-flash", "qwen3.8-27b"} |-> "alibaba"] @@
    [s \in {"glm-5.3", "glm-5.3-flash", "glm-5.3-flashx"} |-> "z-ai"] @@
    [s \in {"mimo-v2.6-flash", "mimo-v2.6-pro"} |-> "xiaomi"] @@
    "muse-spark-1-3" :> "vercel-ai-gateway" @@ "grok-4.7" :> "x-ai" @@
    "kimi-k3" :> "moonshotai" @@ "gemini-3.8-flash" :> "google" @@
    "deepseek-v4.1-flash" :> "vercel-ai-gateway/deepseek" @@
    "th-rudder" :> "th-rudder"

Paid == <<
    "claude-opus-5.5", "claude-fable-5.1", "gpt-6-astra", "muse-spark-1-3",
    "gpt-6-sol", "grok-4.7", "qwen3.8-max", "glm-5.3", "kimi-k3", "gpt-5.6-terra",
    "mimo-v2.6-flash", "mimo-v2.6-pro", "glm-5.3-flash", "glm-5.3-flashx",
    "gemini-3.8-flash", "qwen3.8-flash", "deepseek-v4.1-flash", "gpt-6-luna",
    "qwen3.8-27b">>

Free == <<"mimo-v2.6-flash", "qwen3.8-flash", "deepseek-v4.1-flash">>

(* free_until; the time itself is abstracted to 1. *)
Windows == "qwen3.8-flash" :> 1
===============================================================================
