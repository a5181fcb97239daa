SPECIFICATION ClientSpec
CONSTANTS
    Worker = {w1, w2}
    Task = {t1, t2, t3, t4}
    QueueSize = 1
PROPERTY SubmittedTasksRun
CHECK_DEADLOCK FALSE
