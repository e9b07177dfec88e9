SPECIFICATION Spec
CONSTANTS
    r1 = r1
    r2 = r2
    t1 = t1
    t2 = t2
    raw = raw
    clean = clean
    told = told
    rawflow = rawflow
    flow = flow
    get = get
    put = put
    details = details
    Nobody = Nobody
    Request = {r1, r2}
    Tenant = {t1, t2}
    Body = {raw, clean, told, rawflow, flow}
    AsksOf <- MCAsksOf
    Sensitive = {raw, rawflow}
    Redactions <- MCRedactions
    Prompt <- MCPrompt
    Streaming = {rawflow, flow}
    Tool = {get, put, details}
    Registered = {get}
    Phantom = {details}
    Format = {"openai", "anthropic", "gemini"}
    Answers <- MCAnswers
    Window = 2
    Channel = 2
    Fallbacks = 1
    Stream <- MCStream
    Buffer = 3
    FailOpen = FALSE
INVARIANT ToolsAreExecuted
CHECK_DEADLOCK FALSE
